---- MODULE Spec2Model ----
(***************************************************************************)
(* The hours-tracking calculator (Urenregistratie).  The repository holds  *)
(* four builds of the same App component:                                  *)
(*   "SingleRate"  src/unnamed/part_001, lines 1-1365    one hourlyRate     *)
(*   "StepByStep"  src/unnamed/part_001, lines 1366-4239 client rates and   *)
(*                 the step-by-step revenue breakdown                       *)
(*   "ClientRate"  src/unnamed/part_003                  client rates       *)
(*   "Transfer"    src/unnamed/part_002                  sequential         *)
(*                 deductions with transfers between profiles               *)
(* The state is the React state of App; the operations are its handlers    *)
(* and its effects.                                                        *)
(*                                                                         *)
(* Money is a JavaScript number in the source.  Here every money amount is *)
(* an integer number of 1/Scale euro, and percentages are multiples of 10, *)
(* so that every division by 100 the code performs is exact.               *)
(***************************************************************************)
EXTENDS Integers, Sequences, FiniteSets, TLC

VARIABLES variant, profiles, hoursEntries, appliedDeductions,
          calculations, clientPayment, paymentDistribution, changed, computed,
          localStorage, profileForm, isProfileModalOpen, editingProfile,
          isDeleteModalOpen, profileToDelete, alerted, generated

\* variant      the build that runs
\* profiles, hoursEntries, appliedDeductions, calculations, clientPayment,
\* paymentDistribution      the useState cells of App
\* changed      the cells set since the effects last ran
\* computed     history: the profiles, hoursEntries and appliedDeductions the
\*              last calculateTotals read, as they were when it started
\* localStorage the items 'urenregistratie-profiles', '-hours' and
\*              '-applied-deductions'; an absent item holds the empty value
\*              (the code never stores an empty array or map, and the load
\*              leaves the initial empty state for an absent item)
\* profileForm, isProfileModalOpen, editingProfile, isDeleteModalOpen,
\* profileToDelete      the useState cells of the profile form and of the
\*              delete dialog
\* alerted      the text of the last alert(), "" before the first
\* generated    the number of ids generateId() has returned
vars == <<variant, profiles, hoursEntries, appliedDeductions,
          calculations, clientPayment, paymentDistribution, changed, computed,
          localStorage, profileForm, isProfileModalOpen, editingProfile,
          isDeleteModalOpen, profileToDelete, alerted, generated>>

\* The cells of the profile form and of the delete dialog.
dialogs == <<profileForm, isProfileModalOpen, editingProfile,
             isDeleteModalOpen, profileToDelete, alerted, generated>>

Variants == {"SingleRate", "StepByStep", "ClientRate", "Transfer"}

\* The builds that keep an applied-state map (appliedDeductions).
hasAppliedMap(v) == v # "SingleRate"

\* useState<Profile | null>(null): null is the profile without fields.
NoProfile == [id |-> ""]

\* The initial profileForm, which handleAddProfile sets again.
emptyForm(v) ==
  IF v = "SingleRate"
  THEN [name |-> "", hourlyRate |-> 0, deductions |-> <<>>]
  ELSE IF v = "Transfer"
  THEN [name |-> "", hourlyRates |-> <<>>, deductions |-> <<>>]
  ELSE [name |-> "", hourlyRates |-> <<>>, clientRates |-> <<>>,
        profitDistributions |-> <<>>, deductions |-> <<>>]

-----------------------------------------------------------------------------
(* Bounds of the model. *)

\* Deductions per profile in the sequential-mode inputs.
MaxDeductions == 3

\* Time entries in the gross-calculator inputs.
MaxEntries == 2

\* Deductions per profile in the transfer inputs.
MaxTransferDeductions == 2

\* The most hourly rates and deductions a draft in the profile form has, the
\* most profiles the form stores, and the most ids generateId() returns.
MaxFormRates == 2
MaxFormDeductions == 1
MaxProfiles == 1
MaxGenerated == 4

RECURSIVE Pow10(_)
Pow10(n) == IF n = 0 THEN 1 ELSE 10 * Pow10(n - 1)

\* One euro, in the model's money unit.  A chain of n deductions divides by
\* 100 at most n + 1 times (a profit share divides twice).
Scale == Pow10(MaxDeductions + 1)

\* n euro as an amount of the model.
euro(n) == n * Scale

-----------------------------------------------------------------------------
(* Generic helpers over sequences. *)

RECURSIVE SumSeq(_)
SumSeq(s) == IF s = <<>> THEN 0 ELSE Head(s) + SumSeq(Tail(s))

\* Array.prototype.find / findIndex, given the set of the indexes whose
\* element passes the test: the first of them, 0 if none.
findIndex(passing) ==
  IF passing = {} THEN 0
  ELSE CHOOSE i \in passing : \A j \in passing : i <= j

\* String.prototype.includes, for the deduction names of the model: the role
\* words each name contains (the test is case sensitive).
roleWords(name) ==
  CASE name = "Salary"       -> {"Salary"}
    [] name = "Base Salary"  -> {"Salary"}
    [] name = "MGMT Fee"     -> {"MGMT Fee"}
    [] name = "Profit Share" -> {"Profit Share"}
    [] name = "Profit Share MGMT Fee" -> {"Profit Share", "MGMT Fee"}
    [] OTHER                 -> {}

includes(name, word) == word \in roleWords(name)

\* (x * pct) / 100
percentOf(x, pct) == (x * pct) \div 100

-----------------------------------------------------------------------------
(* The applied-state map: Record<string, boolean>, keyed `${pid}-${did}`.  *)
(* Generated ids are base-36 strings, so the key is the pair.              *)

deductionKey(pid, did) == <<pid, did>>

\* appliedDeductions[deductionKey] !== false   (ClientRate, Transfer)
isAppliedNotFalse(applied, key) == ~(key \in DOMAIN applied /\ applied[key] = FALSE)

\* appliedDeductions[deductionKey] === true    (StepByStep)
isAppliedStrictTrue(applied, key) == key \in DOMAIN applied /\ applied[key] = TRUE

isApplied(v, applied, key) ==
  CASE v = "StepByStep" -> isAppliedStrictTrue(applied, key)
    [] v = "SingleRate" -> TRUE
    [] OTHER            -> isAppliedNotFalse(applied, key)

-----------------------------------------------------------------------------
(* Gross calculator. *)

\* profileHours[profile.id] || 0 : the hours of every entry of the profile.
RECURSIVE profileHours(_, _)
profileHours(entries, pid) ==
  IF entries = <<>> THEN 0
  ELSE (IF Head(entries).profileId = pid THEN Head(entries).hours ELSE 0)
       + profileHours(Tail(entries), pid)

\* Mutant: an entry whose rate is not found is paid at the first rate.
entryGrossFirstRate(profile, entry) ==
  LET i == findIndex({x \in 1..Len(profile.hourlyRates) :
               profile.hourlyRates[x].id = entry.hourlyRateId})
  IN  IF i = 0 THEN entry.hours * profile.hourlyRates[1].rate
      ELSE entry.hours * profile.hourlyRates[i].rate

\* hours * rate of one entry, 0 when profile.hourlyRates.find(...) finds nothing.
entryGross(profile, entry) ==
  LET i == findIndex({x \in 1..Len(profile.hourlyRates) :
               profile.hourlyRates[x].id = entry.hourlyRateId})
  IN  IF i = 0 THEN 0 ELSE entry.hours * profile.hourlyRates[i].rate

RECURSIVE sumEntryGross(_, _)
sumEntryGross(profile, entries) ==
  IF entries = <<>> THEN 0
  ELSE entryGross(profile, Head(entries)) + sumEntryGross(profile, Tail(entries))

grossAmountOf(profile, entries) ==
  sumEntryGross(profile, SelectSeq(entries, LAMBDA e : e.profileId = profile.id))

-----------------------------------------------------------------------------
(* Deduction ordering: profile.deductions.sort((a, b) => a.priority -      *)
(* b.priority).  Array.prototype.sort is stable and sorts in place.        *)

\* Mutant: an unstable insertion, equal priorities come out reversed.
RECURSIVE insertByPriorityUnstable(_, _)
insertByPriorityUnstable(d, sorted) ==
  IF sorted = <<>> THEN <<d>>
  ELSE IF Head(sorted).priority < d.priority
       THEN <<Head(sorted)>> \o insertByPriorityUnstable(d, Tail(sorted))
       ELSE <<d>> \o sorted

RECURSIVE insertByPriority(_, _)
insertByPriority(d, sorted) ==
  IF sorted = <<>> THEN <<d>>
  ELSE IF Head(sorted).priority <= d.priority
       THEN <<Head(sorted)>> \o insertByPriority(d, Tail(sorted))
       ELSE <<d>> \o sorted

RECURSIVE sortByPriority(_)
sortByPriority(ds) ==
  IF ds = <<>> THEN <<>>
  ELSE insertByPriority(ds[Len(ds)], sortByPriority(SubSeq(ds, 1, Len(ds) - 1)))

-----------------------------------------------------------------------------
(* Deduction processor, sequential mode (Transfer build). *)

\* Mutant: the Salary and MGMT Fee deductions are looked up whether applied
\* or not.
profitShareAmountAnyState(pid, deds, applied, grossAmount, totalHours, deduction) ==
  LET salaryIdx == findIndex({x \in 1..Len(deds) : includes(deds[x].name, "Salary")})
      afterSalary == IF salaryIdx # 0 /\ deds[salaryIdx].type = "fixed"
                     THEN grossAmount - deds[salaryIdx].amount * totalHours
                     ELSE grossAmount
      mgmtIdx == findIndex({x \in 1..Len(deds) : includes(deds[x].name, "MGMT Fee")})
      tempAmount == IF mgmtIdx # 0 /\ deds[mgmtIdx].type = "percentage"
                    THEN afterSalary - percentOf(afterSalary, deds[mgmtIdx].amount)
                    ELSE afterSalary
  IN  percentOf(tempAmount, deduction.amount)

\* The profit-share amount: deduction.amount % of grossAmount after the first
\* applied "Salary" deduction (if it is fixed) and the first applied "MGMT Fee"
\* deduction (if it is a percentage).  deds is profile.deductions, already
\* sorted in place.
profitShareAmount(pid, deds, applied, grossAmount, totalHours, deduction) ==
  LET salaryIdx == findIndex({x \in 1..Len(deds) :
                       /\ isAppliedNotFalse(applied, deductionKey(pid, deds[x].id))
                       /\ includes(deds[x].name, "Salary")})
      afterSalary == IF salaryIdx # 0 /\ deds[salaryIdx].type = "fixed"
                     THEN grossAmount - deds[salaryIdx].amount * totalHours
                     ELSE grossAmount
      mgmtIdx == findIndex({x \in 1..Len(deds) :
                     /\ isAppliedNotFalse(applied, deductionKey(pid, deds[x].id))
                     /\ includes(deds[x].name, "MGMT Fee")})
      tempAmount == IF mgmtIdx # 0 /\ deds[mgmtIdx].type = "percentage"
                    THEN afterSalary - percentOf(afterSalary, deds[mgmtIdx].amount)
                    ELSE afterSalary
  IN  percentOf(tempAmount, deduction.amount)

\* Mutant: an ordinary percentage is taken of grossAmount, not of
\* remainingAmount.
sequentialAmountOfGross(pid, deds, applied, grossAmount, totalHours, remainingAmount, deduction) ==
  IF isAppliedNotFalse(applied, deductionKey(pid, deduction.id))
  THEN IF deduction.type = "percentage"
       THEN IF includes(deduction.name, "Profit Share")
            THEN profitShareAmount(pid, deds, applied, grossAmount, totalHours, deduction)
            ELSE percentOf(grossAmount, deduction.amount)
       ELSE deduction.amount * totalHours
  ELSE 0

\* The amount of one deduction, given remainingAmount at the time it is processed.
sequentialAmount(pid, deds, applied, grossAmount, totalHours, remainingAmount, deduction) ==
  IF isAppliedNotFalse(applied, deductionKey(pid, deduction.id))
  THEN IF deduction.type = "percentage"
       THEN IF includes(deduction.name, "Profit Share")
            THEN profitShareAmount(pid, deds, applied, grossAmount, totalHours, deduction)
            ELSE percentOf(remainingAmount, deduction.amount)
       ELSE deduction.amount * totalHours
  ELSE 0

\* The .map over the sorted deductions, threading remainingAmount: the first k
\* deductions processed, as [remainingAmount, deductionBreakdown].
RECURSIVE processSequential(_, _, _, _, _, _)
processSequential(pid, deds, applied, grossAmount, totalHours, k) ==
  IF k = 0 THEN [remainingAmount |-> grossAmount, deductionBreakdown |-> <<>>]
  ELSE LET before == processSequential(pid, deds, applied, grossAmount, totalHours, k - 1)
           deduction == deds[k]
           amount == sequentialAmount(pid, deds, applied, grossAmount, totalHours,
                                      before.remainingAmount, deduction)
       IN  [remainingAmount |-> before.remainingAmount - amount,
            deductionBreakdown |-> Append(before.deductionBreakdown,
               [deductionId |-> deduction.id,
                amount      |-> amount,
                type        |-> deduction.type,
                recipient   |-> deduction.recipientProfileId])]

\* PHASE 1 for one profile.
phase1Result(profile, entries, applied) ==
  LET totalHours == profileHours(entries, profile.id)
      grossAmount == grossAmountOf(profile, entries)
      deds == sortByPriority(profile.deductions)
      done == processSequential(profile.id, deds, applied, grossAmount, totalHours, Len(deds))
  IN  [profileId          |-> profile.id,
       totalHours         |-> totalHours,
       grossAmount        |-> grossAmount,
       totalDeductions    |-> grossAmount - done.remainingAmount,
       netAmount          |-> done.remainingAmount,
       deductionBreakdown |-> done.deductionBreakdown,
       receivedFromOthers |-> 0]

phase1Results(ps, entries, applied) ==
  [i \in 1..Len(ps) |-> phase1Result(ps[i], entries, applied)]

-----------------------------------------------------------------------------
(* Transfer resolver (PHASE 2). *)

\* Mutant: the recipient is handed the configured amount of the deduction,
\* not the amount computed in Phase 1.
RECURSIVE receivedFromDeductionsConfigured(_, _, _, _, _)
receivedFromDeductionsConfigured(otherProfile, otherResult, applied, toId, k) ==
  IF k = 0 THEN 0
  ELSE LET deduction == otherProfile.deductions[k]
           row == findIndex({x \in 1..Len(otherResult.deductionBreakdown) :
                      otherResult.deductionBreakdown[x].deductionId = deduction.id})
       IN  receivedFromDeductionsConfigured(otherProfile, otherResult, applied, toId, k - 1)
           + (IF /\ deduction.recipientProfileId = toId
                 /\ isAppliedNotFalse(applied, deductionKey(otherProfile.id, deduction.id))
                 /\ row # 0
              THEN deduction.amount
              ELSE 0)

\* What the deductions of one other profile hand to the profile `toId`:
\* for each of its deductions with that recipient and applied, the amount of
\* the first breakdown row with the deduction's id.
RECURSIVE receivedFromDeductions(_, _, _, _, _)
receivedFromDeductions(otherProfile, otherResult, applied, toId, k) ==
  IF k = 0 THEN 0
  ELSE LET deduction == otherProfile.deductions[k]
           row == findIndex({x \in 1..Len(otherResult.deductionBreakdown) :
                      otherResult.deductionBreakdown[x].deductionId = deduction.id})
       IN  receivedFromDeductions(otherProfile, otherResult, applied, toId, k - 1)
           + (IF /\ deduction.recipientProfileId = toId
                 /\ isAppliedNotFalse(applied, deductionKey(otherProfile.id, deduction.id))
                 /\ row # 0
              THEN otherResult.deductionBreakdown[row].amount
              ELSE 0)

\* Mutant: the profile's own deductions are scanned too.
RECURSIVE receivedFromOthersOfAll(_, _, _, _, _)
receivedFromOthersOfAll(ps, results, applied, toId, k) ==
  IF k = 0 THEN 0
  ELSE LET otherResult == results[k]
           otherIdx == findIndex({x \in 1..Len(ps) : ps[x].id = otherResult.profileId})
       IN  receivedFromOthersOfAll(ps, results, applied, toId, k - 1)
           + (IF otherIdx # 0
              THEN receivedFromDeductions(ps[otherIdx], otherResult, applied, toId,
                                          Len(ps[otherIdx].deductions))
              ELSE 0)

\* phase1Results.forEach(otherResult => ...) for the result of profile `toId`.
RECURSIVE receivedFromOthersOf(_, _, _, _, _)
receivedFromOthersOf(ps, results, applied, toId, k) ==
  IF k = 0 THEN 0
  ELSE LET otherResult == results[k]
           otherIdx == findIndex({x \in 1..Len(ps) : ps[x].id = otherResult.profileId})
       IN  receivedFromOthersOf(ps, results, applied, toId, k - 1)
           + (IF otherResult.profileId # toId /\ otherIdx # 0
              THEN receivedFromDeductions(ps[otherIdx], otherResult, applied, toId,
                                          Len(ps[otherIdx].deductions))
              ELSE 0)

\* Mutant: a profile receives only from the results before it in the list.
phase2ResultsFromEarlier(ps, results, applied) ==
  [i \in 1..Len(results) |->
     LET receivedFromOthers ==
           receivedFromOthersOf(ps, results, applied, results[i].profileId, i - 1)
     IN  [results[i] EXCEPT !.receivedFromOthers = receivedFromOthers,
                            !.netAmount = results[i].netAmount + receivedFromOthers]]

\* Mutant: a deduction whose recipient does not exist is given back to the
\* deducting profile.
phase2ResultsDanglingRefunded(ps, results, applied) ==
  [i \in 1..Len(results) |->
     LET b == results[i].deductionBreakdown
         refund == SumSeq([x \in 1..Len(b) |->
                     IF /\ b[x].recipient # ""
                        /\ \A o \in 1..Len(ps) : ps[o].id # b[x].recipient
                     THEN b[x].amount ELSE 0])
         receivedFromOthers ==
           receivedFromOthersOf(ps, results, applied, results[i].profileId, Len(results))
     IN  [results[i] EXCEPT !.receivedFromOthers = receivedFromOthers,
                            !.totalDeductions = @ - refund,
                            !.netAmount = @ + refund + receivedFromOthers]]

\* Mutant: receivedFromOthers is recorded but not added to netAmount.
phase2ResultsNetUnchanged(ps, results, applied) ==
  [i \in 1..Len(results) |->
     [results[i] EXCEPT !.receivedFromOthers =
        receivedFromOthersOf(ps, results, applied, results[i].profileId, Len(results))]]

phase2Results(ps, results, applied) ==
  [i \in 1..Len(results) |->
     LET receivedFromOthers ==
           receivedFromOthersOf(ps, results, applied, results[i].profileId, Len(results))
     IN  [results[i] EXCEPT !.receivedFromOthers = receivedFromOthers,
                            !.netAmount = results[i].netAmount + receivedFromOthers]]

\* Mutant: the sort leaves every deductions array in descending order.
sortedInPlaceDescending(ps) ==
  [i \in 1..Len(ps) |->
     LET ds == sortByPriority(ps[i].deductions)
     IN  [ps[i] EXCEPT !.deductions = [k \in 1..Len(ds) |-> ds[Len(ds) + 1 - k]]]]

\* profiles as calculateTotals leaves them: every deductions array sorted in place.
sortedInPlace(ps) ==
  [i \in 1..Len(ps) |-> [ps[i] EXCEPT !.deductions = sortByPriority(ps[i].deductions)]]

-----------------------------------------------------------------------------
(* Aggregator.  A quotient is kept as the pair [num, den]; the guarded      *)
(* value 0 is [num |-> 0, den |-> 1].                                      *)

quotient(n, d) == [num |-> n, den |-> d]
zero == quotient(0, 1)

RECURSIVE gcd(_, _)
gcd(a, b) == IF b = 0 THEN a ELSE gcd(b, a % b)

\* a - b on quotients, over the least common denominator.
qSub(a, b) ==
  LET den == (a.den * b.den) \div gcd(a.den, b.den)
  IN  quotient(a.num * (den \div a.den) - b.num * (den \div b.den), den)

qAdd(a, b) == qSub(a, quotient(0 - b.num, b.den))

\* Math.max(0, a)
qMax0(a) == IF a.num > 0 THEN a ELSE zero

\* a * k and a / k for an integer k > 0
qTimes(a, k) == quotient(a.num * k, a.den)
\* Mutant: a / k without the division.
qOverUnscaled(a, k) == a
qOver(a, k) == quotient(a.num, a.den * k)

qEq(a, b) == a.num * b.den = b.num * a.den

-----------------------------------------------------------------------------
(* Deduction processor, independent mode (SingleRate, StepByStep,          *)
(* ClientRate builds): a percentage of grossAmount, or the flat amount.    *)

\* Mutant: a percentage deduction is taken as a flat amount too.
independentAmountFlat(v, pid, applied, grossAmount, deduction) ==
  IF isApplied(v, applied, deductionKey(pid, deduction.id))
  THEN deduction.amount
  ELSE 0

independentAmount(v, pid, applied, grossAmount, deduction) ==
  IF isApplied(v, applied, deductionKey(pid, deduction.id))
  THEN IF deduction.type = "percentage"
       THEN percentOf(grossAmount, deduction.amount)
       ELSE deduction.amount
  ELSE 0

independentBreakdown(v, pid, deds, applied, grossAmount) ==
  [k \in 1..Len(deds) |->
     [deductionId |-> deds[k].id,
      amount      |-> independentAmount(v, pid, applied, grossAmount, deds[k]),
      type        |-> deds[k].type]]

-----------------------------------------------------------------------------
(* Revenue/margin calculator (StepByStep and ClientRate builds). *)

\* Number.prototype.toString of a rate index (0-based).
indexToString(i) ==
  CASE i = 0 -> "0" [] i = 1 -> "1" [] i = 2 -> "2" [] i = 3 -> "3" [] OTHER -> "n"

\* The client rate joined to the entry's worker rate by the rate's index in
\* profile.hourlyRates: its index in profile.clientRates, 0 if none.
clientRateIndex(profile, hourlyIdx) ==
  findIndex({x \in 1..Len(profile.clientRates) :
      profile.clientRates[x].employeeRateId = indexToString(hourlyIdx - 1)})

\* Mutant: an entry whose worker rate has no client rate is billed nothing.
entryClientRateLinkedOnly(profile, h) ==
  LET c == clientRateIndex(profile, h)
  IN  IF c # 0 THEN profile.clientRates[c].rate ELSE 0

\* The rate the client is billed for an entry whose worker rate is at
\* position h of profile.hourlyRates: the linked client rate, by default
\* twice the worker rate.
entryClientRate(profile, h) ==
  LET c == clientRateIndex(profile, h)
  IN  IF c # 0 THEN profile.clientRates[c].rate ELSE profile.hourlyRates[h].rate * 2

\* The forEach over profileEntries: the first k entries processed.
RECURSIVE revenueLoop(_, _, _)
revenueLoop(profile, profileEntries, k) ==
  IF k = 0
  THEN [clientPayment |-> 0, totalHours |-> 0,
        clientRatePerHour |-> 0, workerRatePerHour |-> 0]
  ELSE LET acc == revenueLoop(profile, profileEntries, k - 1)
           entry == profileEntries[k]
           h == findIndex({x \in 1..Len(profile.hourlyRates) :
                    profile.hourlyRates[x].id = entry.hourlyRateId})
           hours == acc.totalHours + entry.hours
       IN  IF h = 0 THEN [acc EXCEPT !.totalHours = hours]
           ELSE [clientPayment     |-> acc.clientPayment
                                       + entry.hours * entryClientRate(profile, h),
                 totalHours        |-> hours,
                 clientRatePerHour |-> entryClientRate(profile, h),
                 workerRatePerHour |-> profile.hourlyRates[h].rate]

\* Mutant: a profit share is taken of the worker's pay, like a margin.
profitDistributionOfPay(profile, employeePayment, profitMargin) ==
  [k \in 1..Len(profile.profitDistributions) |->
     LET dist == profile.profitDistributions[k]
     IN  [name       |-> dist.name,
          amount     |-> IF dist.type \in {"margin", "profit_share"}
                         THEN percentOf(employeePayment, dist.percentage)
                         ELSE 0,
          percentage |-> dist.percentage]]

\* profile.profitDistributions.map(...)
profitDistributionOf(profile, employeePayment, profitMargin) ==
  [k \in 1..Len(profile.profitDistributions) |->
     LET dist == profile.profitDistributions[k]
     IN  [name       |-> dist.name,
          amount     |-> IF dist.type = "margin"
                         THEN percentOf(employeePayment, dist.percentage)
                         ELSE IF dist.type = "profit_share"
                         THEN percentOf(profitMargin, dist.percentage)
                         ELSE 0,
          percentage |-> dist.percentage]]

\* ClientRate build.
calculateRevenueBreakdownClientRate(profile, profileEntries, employeePayment) ==
  LET loop == revenueLoop(profile, profileEntries, Len(profileEntries))
      clientPaymentV == IF loop.clientPayment = 0
                        THEN employeePayment * 2 ELSE loop.clientPayment
      profitMargin == clientPaymentV - employeePayment
  IN  [clientPayment      |-> clientPaymentV,
       employeePayment    |-> employeePayment,
       profitMargin       |-> profitMargin,
       profitDistribution |-> profitDistributionOf(profile, employeePayment, profitMargin)]

\* StepByStep build: the same, with the two fallbacks on clientRatePerHour and
\* the per-hour breakdown.  Per-hour figures are quotients.
calculateRevenueBreakdownStepByStep(profile, profileEntries, employeePayment) ==
  LET loop == revenueLoop(profile, profileEntries, Len(profileEntries))
      totalHours == loop.totalHours
      first == loop.clientRatePerHour = 0 /\ loop.workerRatePerHour > 0
      rate1 == IF first THEN loop.workerRatePerHour * 2 ELSE loop.clientRatePerHour
      pay1 == IF first THEN employeePayment * 2 ELSE loop.clientPayment
      final == rate1 = 0 /\ totalHours > 0
      clientRatePerHour == IF final THEN quotient(employeePayment * 2, totalHours)
                           ELSE quotient(rate1, 1)
      clientPaymentV == IF final THEN employeePayment * 2 ELSE pay1
      profitMargin == clientPaymentV - employeePayment
      averageWorkerRatePerHour ==
        IF totalHours > 0 THEN quotient(employeePayment, totalHours) ELSE zero
      step1ClientRate == clientRatePerHour
      step2WorkerRate == averageWorkerRatePerHour
      step3LeftoverAfterWorker == qSub(step1ClientRate, step2WorkerRate)
      step4ManagementFee == qMax0(qOver(step3LeftoverAfterWorker, 10))
      step5RobertProfit == qMax0(qSub(step3LeftoverAfterWorker, step4ManagementFee))
  IN  [clientPayment      |-> clientPaymentV,
       employeePayment    |-> employeePayment,
       profitMargin       |-> profitMargin,
       profitDistribution |-> profitDistributionOf(profile, employeePayment, profitMargin),
       stepByStepCalculation |->
         [step1ClientRate          |-> step1ClientRate,
          step2WorkerRate          |-> step2WorkerRate,
          step3LeftoverAfterWorker |-> step3LeftoverAfterWorker,
          step4ManagementFee       |-> step4ManagementFee,
          step5RobertProfit        |-> step5RobertProfit],
       finalDistribution |->
         [client |-> [rate |-> step1ClientRate,
                      total |-> qTimes(step1ClientRate, totalHours)],
          worker |-> [rate |-> step2WorkerRate,
                      total |-> qTimes(step2WorkerRate, totalHours)],
          robert |-> [managementFee |-> qTimes(step4ManagementFee, totalHours),
                      profitShare   |-> qTimes(step5RobertProfit, totalHours),
                      total |-> qTimes(qAdd(step4ManagementFee, step5RobertProfit),
                                       totalHours)]]]

-----------------------------------------------------------------------------
(* calculateTotals: the per-profile results of each build. *)

\* SingleRate build: grossAmount is totalHours * profile.hourlyRate.
resultSingleRate(profile, entries) ==
  LET totalHours == profileHours(entries, profile.id)
      grossAmount == totalHours * profile.hourlyRate
      deductionBreakdown ==
        independentBreakdown("SingleRate", profile.id,
                             sortByPriority(profile.deductions), <<>>, grossAmount)
      totalDeductions == SumSeq([n \in 1..Len(deductionBreakdown) |-> deductionBreakdown[n].amount])
  IN  [profileId          |-> profile.id,
       totalHours         |-> totalHours,
       grossAmount        |-> grossAmount,
       totalDeductions    |-> totalDeductions,
       netAmount          |-> grossAmount - totalDeductions,
       deductionBreakdown |-> deductionBreakdown]

\* StepByStep and ClientRate builds.
resultWithRevenue(v, profile, entries, applied) ==
  LET totalHours == profileHours(entries, profile.id)
      grossAmount == grossAmountOf(profile, entries)
      profileEntries == SelectSeq(entries, LAMBDA e : e.profileId = profile.id)
      deductionBreakdown ==
        independentBreakdown(v, profile.id, sortByPriority(profile.deductions),
                             applied, grossAmount)
      totalDeductions == SumSeq([n \in 1..Len(deductionBreakdown) |-> deductionBreakdown[n].amount])
  IN  [profileId          |-> profile.id,
       totalHours         |-> totalHours,
       grossAmount        |-> grossAmount,
       totalDeductions    |-> totalDeductions,
       netAmount          |-> grossAmount - totalDeductions,
       deductionBreakdown |-> deductionBreakdown,
       revenueBreakdown   |->
         IF v = "StepByStep"
         THEN calculateRevenueBreakdownStepByStep(profile, profileEntries, grossAmount)
         ELSE calculateRevenueBreakdownClientRate(profile, profileEntries, grossAmount)]

\* setCalculations(...): the results of the build v.
calculationsOf(v, ps, entries, applied) ==
  CASE v = "Transfer"   -> phase2Results(ps, phase1Results(ps, entries, applied), applied)
    [] v = "SingleRate" -> [i \in 1..Len(ps) |-> resultSingleRate(ps[i], entries)]
    [] OTHER            -> [i \in 1..Len(ps) |->
                              resultWithRevenue(v, ps[i], entries, applied)]

\* The total the build calls totalAmount or totalClientPayment.
totalAmountOf(v, results) ==
  IF v \in {"StepByStep", "ClientRate"}
  THEN SumSeq([n \in 1..Len(results) |-> results[n].revenueBreakdown.clientPayment])
  ELSE SumSeq([n \in 1..Len(results) |-> results[n].grossAmount])

\* Mutant: averageRate divides without the guard on totalHours.
clientPaymentOfUnguarded(v, results) ==
  LET totalAmount == totalAmountOf(v, results)
      totalHours == SumSeq([n \in 1..Len(results) |-> results[n].totalHours])
  IN  [totalAmount |-> totalAmount,
       totalHours  |-> totalHours,
       averageRate |-> quotient(totalAmount, totalHours)]

\* setClientPayment(...)
clientPaymentOf(v, results) ==
  LET totalAmount == totalAmountOf(v, results)
      totalHours == SumSeq([n \in 1..Len(results) |-> results[n].totalHours])
  IN  [totalAmount |-> totalAmount,
       totalHours  |-> totalHours,
       averageRate |-> IF totalHours > 0 THEN quotient(totalAmount, totalHours) ELSE zero]

\* Mutant: every build divides by the sum of the net amounts.
distributionTotalNet(v, results) ==
  SumSeq([n \in 1..Len(results) |-> results[n].netAmount])

\* The denominator of the distribution percentages: totalNetAmount in the
\* Transfer build, totalAmount / totalClientPayment in the others.
distributionTotal(v, results) ==
  IF v = "Transfer" THEN SumSeq([n \in 1..Len(results) |-> results[n].netAmount])
  ELSE totalAmountOf(v, results)

\* Mutant: the share as a fraction, not times 100.
paymentDistributionOfFraction(v, results) ==
  LET total == distributionTotal(v, results)
  IN  [i \in 1..Len(results) |->
         [profileId  |-> results[i].profileId,
          amount     |-> results[i].netAmount,
          percentage |-> IF total > 0
                         THEN quotient(results[i].netAmount, total)
                         ELSE zero]]

\* setPaymentDistribution(...)
paymentDistributionOf(v, results) ==
  LET total == distributionTotal(v, results)
  IN  [i \in 1..Len(results) |->
         [profileId  |-> results[i].profileId,
          amount     |-> results[i].netAmount,
          percentage |-> IF total > 0
                         THEN quotient(results[i].netAmount * 100, total)
                         ELSE zero]]

-----------------------------------------------------------------------------
(* The effects.  `changed` holds the state variables set since the effects  *)
(* last ran; an effect runs when one of its dependencies is in it.         *)

\* The keys of every deduction of every profile.
deductionKeys(ps) ==
  UNION {{deductionKey(ps[i].id, ps[i].deductions[k].id) :
            k \in 1..Len(ps[i].deductions)} : i \in 1..Len(ps)}

\* The map the initialisation effect builds: every missing key set to true.
withDefaults(ps, applied) ==
  [key \in (DOMAIN applied) \cup deductionKeys(ps) |->
     IF key \in DOMAIN applied THEN applied[key] ELSE TRUE]

\* Whether the initialisation effect runs: profiles is a dependency in every
\* build with a map, appliedDeductions too in StepByStep and ClientRate.
initEffectRuns(v, ps, deps) ==
  /\ hasAppliedMap(v)
  /\ Len(ps) > 0
  /\ IF v = "Transfer" THEN "profiles" \in deps
     ELSE deps \cap {"profiles", "appliedDeductions"} # {}

\* Whether it calls setAppliedDeductions: always in ClientRate and Transfer,
\* only if (hasChanges) in StepByStep.
initEffectSets(v, ps, applied, deps) ==
  /\ initEffectRuns(v, ps, deps)
  /\ v = "StepByStep" => deductionKeys(ps) \ DOMAIN applied # {}

\* The save effects: a cell that changed and is not empty is written to its
\* item.  SingleRate has no applied-state map.
saveEffects(v, store, ps, entries, applied, deps) ==
  [profiles          |-> IF "profiles" \in deps /\ Len(ps) > 0
                         THEN ps ELSE store.profiles,
   hoursEntries      |-> IF "hoursEntries" \in deps /\ Len(entries) > 0
                         THEN entries ELSE store.hoursEntries,
   appliedDeductions |-> IF /\ hasAppliedMap(v)
                            /\ "appliedDeductions" \in deps
                            /\ DOMAIN applied # {}
                         THEN applied ELSE store.appliedDeductions]

\* One commit: the effects whose dependencies changed run, in source order,
\* on the state of this render: the save effects write localStorage, the
\* initialisation effect queues the new map, calculateTotals computes from
\* the map of this render and sorts every deductions array in place; then
\* the queued map becomes the state.
runEffects ==
  /\ changed # {}
  /\ localStorage' = saveEffects(variant, localStorage, profiles, hoursEntries,
                                 appliedDeductions, changed)
  /\ LET results == calculationsOf(variant, profiles, hoursEntries, appliedDeductions)
         sets == initEffectSets(variant, profiles, appliedDeductions, changed)
     IN  /\ calculations' = results
         /\ clientPayment' = clientPaymentOf(variant, results)
         /\ paymentDistribution' = paymentDistributionOf(variant, results)
         /\ profiles' = sortedInPlace(profiles)
         /\ appliedDeductions' = IF sets THEN withDefaults(profiles, appliedDeductions)
                                 ELSE appliedDeductions
         /\ changed' = IF sets THEN {"appliedDeductions"} ELSE {}
  /\ computed' = [profiles |-> profiles, hoursEntries |-> hoursEntries,
                  appliedDeductions |-> appliedDeductions]
  /\ UNCHANGED <<variant, hoursEntries, dialogs>>

\* !prev[deductionKey]  (ClientRate, Transfer: a missing key becomes true)
toggledNot(prev, key) == ~(key \in DOMAIN prev /\ prev[key] = TRUE)

\* currentValue === true ? false : true  (StepByStep)
toggledStrict(prev, key) == IF key \in DOMAIN prev /\ prev[key] = TRUE THEN FALSE ELSE TRUE

toggleDeduction(profileId, deductionId) ==
  /\ hasAppliedMap(variant)
  /\ LET key == deductionKey(profileId, deductionId)
         newValue == IF variant = "StepByStep"
                     THEN toggledStrict(appliedDeductions, key)
                     ELSE toggledNot(appliedDeductions, key)
     IN  appliedDeductions' =
           [k \in (DOMAIN appliedDeductions) \cup {key} |->
              IF k = key THEN newValue ELSE appliedDeductions[k]]
  /\ changed' = changed \cup {"appliedDeductions"}
  /\ UNCHANGED <<variant, profiles, hoursEntries, calculations, clientPayment,
                 paymentDistribution, computed, localStorage, dialogs>>

\* The toggle is a checkbox on a deduction of the profile of a rendered
\* calculation row; an open dialog covers the page.
Toggle ==
  \E r \in 1..Len(calculations) :
    LET i == findIndex({x \in 1..Len(profiles) :
                 profiles[x].id = calculations[r].profileId})
    IN  /\ ~isProfileModalOpen /\ ~isDeleteModalOpen
        /\ i # 0
        /\ \E k \in 1..Len(profiles[i].deductions) :
             toggleDeduction(profiles[i].id, profiles[i].deductions[k].id)

Next == runEffects \/ Toggle

-----------------------------------------------------------------------------
(* Deleting a profile. *)

\* profiles.filter(p => p.id !== id)
withoutProfile(ps, id) == SelectSeq(ps, LAMBDA p : p.id # id)

\* Mutant: the time entries of the deleted profile are kept.
keepEntries(entries, id) == entries

\* hoursEntries.filter(h => h.profileId !== id)
withoutEntriesOf(entries, id) == SelectSeq(entries, LAMBDA h : h.profileId # id)

\* The handler's own update of localStorage: setItem, or removeItem for an
\* array that became empty.
afterDelete(store, newProfiles, newHoursEntries) ==
  [store EXCEPT !.profiles = newProfiles, !.hoursEntries = newHoursEntries]

\* The part the two delete handlers share.
deleteProfile(id) ==
  LET newProfiles == withoutProfile(profiles, id)
      newHoursEntries == withoutEntriesOf(hoursEntries, id)
  IN  /\ profiles' = newProfiles
      /\ hoursEntries' = newHoursEntries
      /\ localStorage' = afterDelete(localStorage, newProfiles, newHoursEntries)
      /\ changed' = changed \cup {"profiles", "hoursEntries"}
      /\ UNCHANGED <<variant, appliedDeductions, calculations, clientPayment,
                     paymentDistribution, computed>>

\* SingleRate: handleDeleteProfile(profileId) asks confirm() and deletes.
\* The other builds: handleDeleteProfile(profile) opens the delete dialog.
handleDeleteProfile(id) ==
  IF variant = "SingleRate"
  THEN \E confirmed \in BOOLEAN :
         IF confirmed
         THEN deleteProfile(id) /\ UNCHANGED dialogs
         ELSE UNCHANGED vars
  ELSE /\ profileToDelete' = CHOOSE p \in {profiles[i] : i \in 1..Len(profiles)} : p.id = id
       /\ isDeleteModalOpen' = TRUE
       /\ UNCHANGED <<variant, profiles, hoursEntries, appliedDeductions, calculations,
                      clientPayment, paymentDistribution, changed, computed,
                      localStorage, profileForm, isProfileModalOpen, editingProfile,
                      alerted, generated>>

\* The delete button: on a calculation row in SingleRate, on a row of the
\* profile list in the other builds.
DeleteProfile ==
  /\ ~isDeleteModalOpen /\ ~isProfileModalOpen
  /\ IF variant = "SingleRate"
     THEN \E r \in 1..Len(calculations) : handleDeleteProfile(calculations[r].profileId)
     ELSE \E i \in 1..Len(profiles) : handleDeleteProfile(profiles[i].id)

\* The dialog's confirm button.
confirmDeleteProfile ==
  /\ variant # "SingleRate"
  /\ isDeleteModalOpen
  /\ IF profileToDelete = NoProfile
     THEN UNCHANGED vars
     ELSE /\ deleteProfile(profileToDelete.id)
          /\ isDeleteModalOpen' = FALSE
          /\ profileToDelete' = NoProfile
          /\ UNCHANGED <<profileForm, isProfileModalOpen, editingProfile, alerted,
                         generated>>

\* The dialog's cancel buttons: onClick={() => setIsDeleteModalOpen(false)}.
cancelDeleteProfile ==
  /\ variant # "SingleRate"
  /\ isDeleteModalOpen
  /\ isDeleteModalOpen' = FALSE
  /\ UNCHANGED <<variant, profiles, hoursEntries, appliedDeductions, calculations,
                 clientPayment, paymentDistribution, changed, computed,
                 localStorage, profileForm, isProfileModalOpen, editingProfile,
                 profileToDelete, alerted, generated>>

NextDelete == Next \/ DeleteProfile \/ confirmDeleteProfile \/ cancelDeleteProfile

-----------------------------------------------------------------------------
(* The profile form (StepByStep, ClientRate and Transfer builds).  The      *)
(* texts typed are " " and " Ann " for the name and "Std" for a rate label; *)
(* both are "" before the first key.  A handler of the form is taken when   *)
(* the effects of the last commit have run (React runs them before the      *)
(* next event).                                                             *)

\* String.prototype.trim on the texts of the model.
trim(text) == CASE text = " " -> "" [] text = " Ann " -> "Ann" [] OTHER -> text

\* The n-th string generateId() returns.
generateId(n) ==
  CASE n = 1 -> "g1" [] n = 2 -> "g2" [] n = 3 -> "g3" [] n = 4 -> "g4"
    [] n = 5 -> "g5" [] n = 6 -> "g6" [] n = 7 -> "g7" [] n = 8 -> "g8"
    [] n = 9 -> "g9" [] OTHER -> "g10"

handleAddProfile ==
  /\ variant # "SingleRate" /\ changed = {}
  /\ ~isProfileModalOpen /\ ~isDeleteModalOpen
  /\ editingProfile' = NoProfile
  /\ profileForm' = emptyForm(variant)
  /\ isProfileModalOpen' = TRUE
  /\ UNCHANGED <<variant, profiles, hoursEntries, appliedDeductions, calculations,
                 clientPayment, paymentDistribution, changed, computed, localStorage,
                 isDeleteModalOpen, profileToDelete, alerted, generated>>

\* The draft the click on a profile of the list puts in the form.
formOf(v, profile) ==
  LET hourlyRates == [k \in 1..Len(profile.hourlyRates) |->
                        [label |-> profile.hourlyRates[k].label,
                         rate  |-> profile.hourlyRates[k].rate]]
      deductions == [k \in 1..Len(profile.deductions) |->
                       IF v = "Transfer"
                       THEN [name |-> profile.deductions[k].name,
                             amount |-> profile.deductions[k].amount,
                             type |-> profile.deductions[k].type,
                             priority |-> profile.deductions[k].priority,
                             recipientProfileId |->
                               profile.deductions[k].recipientProfileId]
                       ELSE [name |-> profile.deductions[k].name,
                             amount |-> profile.deductions[k].amount,
                             type |-> profile.deductions[k].type,
                             priority |-> profile.deductions[k].priority]]
  IN  IF v = "Transfer"
      THEN [name |-> profile.name, hourlyRates |-> hourlyRates, deductions |-> deductions]
      ELSE [name |-> profile.name, hourlyRates |-> hourlyRates,
            clientRates |-> [k \in 1..Len(profile.clientRates) |->
                               [label |-> profile.clientRates[k].label,
                                rate |-> profile.clientRates[k].rate,
                                employeeRateId |-> profile.clientRates[k].employeeRateId]],
            profitDistributions |->
              [k \in 1..Len(profile.profitDistributions) |->
                 [name |-> profile.profitDistributions[k].name,
                  percentage |-> profile.profitDistributions[k].percentage,
                  type |-> profile.profitDistributions[k].type]],
            deductions |-> deductions]

\* onClick of a profile of the list: edit it.
editProfile ==
  /\ variant # "SingleRate" /\ changed = {}
  /\ ~isProfileModalOpen /\ ~isDeleteModalOpen
  /\ \E i \in 1..Len(profiles) :
       /\ editingProfile' = profiles[i]
       /\ profileForm' = formOf(variant, profiles[i])
  /\ isProfileModalOpen' = TRUE
  /\ UNCHANGED <<variant, profiles, hoursEntries, appliedDeductions, calculations,
                 clientPayment, paymentDistribution, changed, computed, localStorage,
                 isDeleteModalOpen, profileToDelete, alerted, generated>>

\* A handler of the open form that sets profileForm and nothing else.
setProfileForm(form) ==
  /\ variant # "SingleRate" /\ changed = {}
  /\ isProfileModalOpen
  /\ profileForm' = form
  /\ UNCHANGED <<variant, profiles, hoursEntries, appliedDeductions, calculations,
                 clientPayment, paymentDistribution, changed, computed, localStorage,
                 isProfileModalOpen, editingProfile, isDeleteModalOpen,
                 profileToDelete, alerted, generated>>

\* onChange of the name input
setName == \E name \in {" ", " Ann "} : setProfileForm([profileForm EXCEPT !.name = name])

addHourlyRate ==
  /\ Len(profileForm.hourlyRates) < MaxFormRates
  /\ setProfileForm([profileForm EXCEPT
                       !.hourlyRates = Append(@, [label |-> "", rate |-> 0])])

removeHourlyRate ==
  \E index \in 1..Len(profileForm.hourlyRates) :
    setProfileForm([profileForm EXCEPT
                     !.hourlyRates = [k \in 1..(Len(@) - 1) |->
                                        IF k < index THEN @[k] ELSE @[k + 1]]])

\* updateHourlyRate(index, 'label', text) and updateHourlyRate(index, 'rate',
\* number): the input gives 0 for an empty or unreadable text.
updateHourlyRate ==
  \E index \in 1..Len(profileForm.hourlyRates) :
    \/ \E label \in {"Std"} :
         setProfileForm([profileForm EXCEPT !.hourlyRates[index].label = label])
    \/ \E euros \in {0, 10} :
         setProfileForm([profileForm EXCEPT !.hourlyRates[index].rate = euro(euros)])

addDeduction ==
  /\ Len(profileForm.deductions) < MaxFormDeductions
  /\ LET deduction == [name |-> "", amount |-> 0, type |-> "percentage",
                       priority |-> Len(profileForm.deductions)]
     IN  setProfileForm([profileForm EXCEPT
           !.deductions = Append(@, IF variant = "Transfer"
                                    THEN deduction @@ [recipientProfileId |-> ""]
                                    ELSE deduction)])

removeDeduction ==
  \E index \in 1..Len(profileForm.deductions) :
    setProfileForm([profileForm EXCEPT
                     !.deductions = [k \in 1..(Len(@) - 1) |->
                                       IF k < index THEN @[k] ELSE @[k + 1]]])

\* Mutant: the rates of the draft are not validated.
hasInvalidRatesNever(form) == FALSE

\* profileForm.hourlyRates.some(rate => !rate.label.trim() || rate.rate <= 0)
hasInvalidRates(form) ==
  \E k \in 1..Len(form.hourlyRates) :
    trim(form.hourlyRates[k].label) = "" \/ form.hourlyRates[k].rate <= 0

\* items.map((item, index) => ({id: editingProfile?.items[index]?.id ||
\* generateId(), ...item})): the ids, n ids having been generated before.
idsFor(old, items, n) ==
  [k \in 1..Len(items) |->
     IF k <= Len(old) THEN old[k].id ELSE generateId(n + k - Len(old))]

\* The number of ids idsFor generates.
idsNew(old, items) == IF Len(items) > Len(old) THEN Len(items) - Len(old) ELSE 0

\* newProfile of handleSaveProfile, and the number of ids generated with it.
newProfile(v, form, editing, n) ==
  LET isNew == editing = NoProfile
      n1 == IF isNew THEN n + 1 ELSE n
      oldRates == IF isNew THEN <<>> ELSE editing.hourlyRates
      rateIds == idsFor(oldRates, form.hourlyRates, n1)
      n2 == n1 + idsNew(oldRates, form.hourlyRates)
      oldClients == IF isNew \/ v = "Transfer" THEN <<>> ELSE editing.clientRates
      clients == IF v = "Transfer" THEN <<>> ELSE form.clientRates
      clientIds == idsFor(oldClients, clients, n2)
      n3 == n2 + idsNew(oldClients, clients)
      oldDists == IF isNew \/ v = "Transfer" THEN <<>> ELSE editing.profitDistributions
      dists == IF v = "Transfer" THEN <<>> ELSE form.profitDistributions
      distIds == idsFor(oldDists, dists, n3)
      n4 == n3 + idsNew(oldDists, dists)
      oldDeductions == IF isNew THEN <<>> ELSE editing.deductions
      deductionIds == idsFor(oldDeductions, form.deductions, n4)
      n5 == n4 + idsNew(oldDeductions, form.deductions)
      id == IF isNew THEN generateId(n + 1) ELSE editing.id
      hourlyRates == [k \in 1..Len(form.hourlyRates) |->
                        [id |-> rateIds[k], label |-> form.hourlyRates[k].label,
                         rate |-> form.hourlyRates[k].rate]]
      deductions == [k \in 1..Len(form.deductions) |->
                       [form.deductions[k] EXCEPT !.priority = k - 1]
                         @@ [id |-> deductionIds[k]]]
  IN  [generated |-> n5,
       profile |->
         IF v = "Transfer"
         THEN [id |-> id, name |-> trim(form.name), hourlyRates |-> hourlyRates,
               deductions |-> deductions]
         ELSE [id |-> id, name |-> trim(form.name), hourlyRates |-> hourlyRates,
               clientRates |-> [k \in 1..Len(clients) |->
                                  clients[k] @@ [id |-> clientIds[k]]],
               profitDistributions |-> [k \in 1..Len(dists) |->
                                          dists[k] @@ [id |-> distIds[k]]],
               deductions |-> deductions]]

\* The Save button of the form.
handleSaveProfile ==
  /\ variant # "SingleRate" /\ changed = {}
  /\ isProfileModalOpen
  /\ IF trim(profileForm.name) = "" \/ Len(profileForm.hourlyRates) = 0
     THEN /\ alerted' = "Vul alle verplichte velden in en voeg ten minste een uurtarief toe"
          /\ UNCHANGED <<variant, profiles, hoursEntries, appliedDeductions,
                         calculations, clientPayment, paymentDistribution, changed,
                         computed, localStorage, profileForm, isProfileModalOpen,
                         editingProfile, isDeleteModalOpen, profileToDelete, generated>>
     ELSE IF hasInvalidRates(profileForm)
     THEN /\ alerted' = "Alle uurtarieven moeten een naam en een geldig bedrag hebben"
          /\ UNCHANGED <<variant, profiles, hoursEntries, appliedDeductions,
                         calculations, clientPayment, paymentDistribution, changed,
                         computed, localStorage, profileForm, isProfileModalOpen,
                         editingProfile, isDeleteModalOpen, profileToDelete, generated>>
     ELSE LET new == newProfile(variant, profileForm, editingProfile, generated)
          IN  /\ new.generated <= MaxGenerated
              /\ editingProfile = NoProfile => Len(profiles) < MaxProfiles
              /\ profiles' = IF editingProfile # NoProfile
                             THEN [i \in 1..Len(profiles) |->
                                     IF profiles[i].id = editingProfile.id
                                     THEN new.profile ELSE profiles[i]]
                             ELSE Append(profiles, new.profile)
              /\ generated' = new.generated
              /\ changed' = changed \cup {"profiles"}
              /\ isProfileModalOpen' = FALSE
              /\ editingProfile' = NoProfile
              /\ UNCHANGED <<variant, hoursEntries, appliedDeductions, calculations,
                             clientPayment, paymentDistribution, computed,
                             localStorage, profileForm, isDeleteModalOpen,
                             profileToDelete, alerted>>

NextForm ==
  \/ runEffects
  \/ handleAddProfile \/ editProfile
  \/ setName \/ addHourlyRate \/ removeHourlyRate \/ updateHourlyRate
  \/ addDeduction \/ removeDeduction
  \/ handleSaveProfile

-----------------------------------------------------------------------------
(* Inputs.  The state after the mount effect has loaded localStorage: any   *)
(* profiles and time entries an earlier session or an import left there,   *)
(* with unique ids.  Ids stand for the strings generateId() returns.        *)

profileId(i) == CASE i = 1 -> "p1" [] i = 2 -> "p2" [] i = 3 -> "p3" [] OTHER -> "p4"
deductionId(k) ==
  CASE k = 1 -> "d1" [] k = 2 -> "d2" [] k = 3 -> "d3" [] k = 4 -> "d4"
    [] k = 5 -> "d5" [] k = 6 -> "d6" [] k = 7 -> "d7" [] OTHER -> "d8"
entryId(j) ==
  CASE j = 1 -> "e1" [] j = 2 -> "e2" [] j = 3 -> "e3" [] j = 4 -> "e4" [] OTHER -> "e5"

\* A profile id no profile has, and a rate id no profile has.
NoSuchProfile == "p9"
NoSuchRate == "r9"


SeqsUpTo(S, n) == UNION {[1..k -> S] : k \in 0..n}

rate(id, euros) == [id |-> id, rate |-> euro(euros)]

RateConfigs == {<<rate("r1", 10)>>, <<rate("r1", 10), rate("r2", 20)>>}

\* Deductions without ids: id and (for the form's order) priority follow
\* from the position.
fixedTax == [name |-> "Tax", amount |-> euro(2), type |-> "fixed"]
percentTax == [name |-> "Tax", amount |-> 10, type |-> "percentage"]

withIdsFrom(first, shapes, priorities, recipients) ==
  [k \in 1..Len(shapes) |->
     [id |-> deductionId(first + k - 1), name |-> shapes[k].name, amount |-> shapes[k].amount,
      type |-> shapes[k].type, priority |-> priorities[k],
      recipientProfileId |-> recipients[k]]]

withIds(shapes, priorities, recipients) == withIdsFrom(1, shapes, priorities, recipients)

inFormOrder(shapes) ==
  withIds(shapes, [k \in 1..Len(shapes) |-> k - 1], [k \in 1..Len(shapes) |-> ""])

\* Only the Transfer build's deductions have a recipientProfileId.
withoutRecipient(deds) ==
  [k \in 1..Len(deds) |->
     [id |-> deds[k].id, name |-> deds[k].name, amount |-> deds[k].amount,
      type |-> deds[k].type, priority |-> deds[k].priority]]

makeProfile(v, i, rates, deds) ==
  CASE v = "SingleRate" ->
         [id |-> profileId(i), hourlyRate |-> rates[Len(rates)].rate,
          deductions |-> withoutRecipient(deds)]
    [] v = "Transfer" ->
         [id |-> profileId(i), hourlyRates |-> rates, deductions |-> deds]
    [] OTHER ->
         [id |-> profileId(i), hourlyRates |-> rates, clientRates |-> <<>>,
          profitDistributions |-> <<>>, deductions |-> withoutRecipient(deds)]

makeEntries(v, shapes) ==
  [j \in 1..Len(shapes) |->
     IF v = "SingleRate"
     THEN [id |-> entryId(j), profileId |-> shapes[j].profileId, hours |-> shapes[j].hours]
     ELSE [id |-> entryId(j), profileId |-> shapes[j].profileId,
           hourlyRateId |-> shapes[j].hourlyRateId, hours |-> shapes[j].hours]]

AllDeps == {"profiles", "hoursEntries", "appliedDeductions"}

NoMap == [key \in {} |-> TRUE]

\* The first render after the load: nothing computed yet, every effect due.
Loaded(v, ps, entries, applied) ==
  /\ variant = v
  /\ profiles = ps
  /\ hoursEntries = entries
  /\ appliedDeductions = applied
  /\ calculations = <<>>
  /\ clientPayment = [totalAmount |-> 0, totalHours |-> 0, averageRate |-> zero]
  /\ paymentDistribution = <<>>
  /\ changed = AllDeps
  /\ computed = [profiles |-> <<>>, hoursEntries |-> <<>>, appliedDeductions |-> NoMap]
  /\ localStorage = [profiles |-> ps, hoursEntries |-> entries,
                     appliedDeductions |-> applied]
  /\ profileForm = emptyForm(v)
  /\ isProfileModalOpen = FALSE
  /\ editingProfile = NoProfile
  /\ isDeleteModalOpen = FALSE
  /\ profileToDelete = NoProfile
  /\ alerted = ""
  /\ generated = 0

(* Gross-calculator inputs: every build; one or two profiles with one or    *)
(* two rates, the first with at most one deduction (kept, or paid to p2 in  *)
(* the Transfer build); up to MaxEntries entries, whose profile or rate may *)
(* not exist.                                                               *)

GrossDeductions(v) ==
  {<<>>, inFormOrder(<<fixedTax>>), inFormOrder(<<percentTax>>)}
  \cup (IF v = "Transfer" THEN {withIds(<<fixedTax>>, <<0>>, <<"p2">>)} ELSE {})

EntryShapes(v) ==
  IF v = "SingleRate"
  THEN [profileId : {"p1", "p2", NoSuchProfile}, hours : {2, 10}]
  ELSE [profileId : {"p1", "p2", NoSuchProfile},
        hourlyRateId : {"r1", "r2", NoSuchRate}, hours : {2, 10}]

GrossProfiles(v) ==
  {<<makeProfile(v, 1, cfg.rates, cfg.deds)>> :
     cfg \in [rates : RateConfigs, deds : GrossDeductions(v)]}
  \cup
  {<<makeProfile(v, 1, cfg.rates, cfg.deds), makeProfile(v, 2, rates2, <<>>)>> :
     cfg \in [rates : RateConfigs, deds : GrossDeductions(v)], rates2 \in RateConfigs}

Init ==
  \E v \in Variants :
    \E ps \in GrossProfiles(v) :
      \E shapes \in SeqsUpTo(EntryShapes(v), MaxEntries) :
        Loaded(v, ps, makeEntries(v, shapes), NoMap)

Spec == Init /\ [][Next]_vars

(* Sequential-mode inputs: the Transfer build; profile p1 with one to       *)
(* MaxDeductions deductions of any of the shapes below in any of the        *)
(* priority orders below, all paid to p2; p1 has 10 h at 10 euro, with or   *)
(* without 2 h more on a rate that no longer exists.                        *)

salaryFixed == [name |-> "Salary", amount |-> euro(2), type |-> "fixed"]
salaryPercent == [name |-> "Base Salary", amount |-> 10, type |-> "percentage"]
mgmtFee == [name |-> "MGMT Fee", amount |-> 10, type |-> "percentage"]
profitShare == [name |-> "Profit Share", amount |-> 50, type |-> "percentage"]

SequentialShapes == {salaryFixed, salaryPercent, mgmtFee, profitShare, percentTax}

\* Priorities by position: the form's order, rotated (2,0,1 for three) and
\* all equal.
PriorityOrders(n) ==
  {[k \in 1..n |-> k - 1], [k \in 1..n |-> (k + 1) % n], [k \in 1..n |-> 0]}

SequentialDeductions ==
  UNION {{withIds(shapes, priorities, [k \in 1..n |-> "p2"]) :
            shapes \in [1..n -> SequentialShapes],
            priorities \in PriorityOrders(n)} :
         n \in 1..MaxDeductions}

tenHours == [profileId |-> "p1", hourlyRateId |-> "r1", hours |-> 10]
unmatchedHours == [profileId |-> "p1", hourlyRateId |-> NoSuchRate, hours |-> 2]

InitSequential ==
  \E deds \in SequentialDeductions :
    \E shapes \in {<<tenHours>>, <<tenHours, unmatchedHours>>} :
      Loaded("Transfer",
             <<makeProfile("Transfer", 1, <<rate("r1", 10)>>, deds),
               makeProfile("Transfer", 2, <<rate("r1", 10)>>, <<>>)>>,
             makeEntries("Transfer", shapes), NoMap)

SpecSequential == InitSequential /\ [][Next]_vars

(* Transfer inputs: the Transfer build; p1 with up to                       *)
(* MaxTransferDeductions deductions and p2 with at most one (a fixed or a   *)
(* percentage tax), each kept, paid to p1, to p2 or to a profile that does  *)
(* not exist; p1 has 10 h at 10 euro, p2 has 2 h at 20 euro or none.        *)

TransferDeductions(first, most) ==
  UNION {{withIdsFrom(first, shapes, [k \in 1..n |-> k - 1], recipients) :
            shapes \in [1..n -> {fixedTax, percentTax}],
            recipients \in [1..n -> {"", "p1", "p2", NoSuchProfile}]} :
         n \in 0..most}

twoHours == [profileId |-> "p2", hourlyRateId |-> "r2", hours |-> 2]

InitTransfer ==
  \E deds1 \in TransferDeductions(1, MaxTransferDeductions),
     deds2 \in TransferDeductions(MaxTransferDeductions + 1, 1) :
    \E shapes \in {<<tenHours>>, <<tenHours, twoHours>>} :
      Loaded("Transfer",
             <<makeProfile("Transfer", 1, <<rate("r1", 10)>>, deds1),
               makeProfile("Transfer", 2, <<rate("r1", 10), rate("r2", 20)>>, deds2)>>,
             makeEntries("Transfer", shapes), NoMap)

SpecTransfer == InitTransfer /\ [][Next]_vars

(* Delete inputs: every build.  Transfer: p1 with one or two taxes, each  *)
(* kept or paid to p2, p2 with at most one tax paid to p1, and p3 without   *)
(* deductions.  The other builds: p1 and p2 of the gross-calculator inputs.*)
(* p1 has 10 h (with or without 2 h on a rate that no longer exists), p2    *)
(* has 2 h or none.                                                        *)

DeleteProfiles(v) ==
  IF v = "Transfer"
  THEN UNION {{<<makeProfile(v, 1, <<rate("r1", 10)>>,
                             withIds(shapes1, [k \in 1..n |-> k - 1], to1)),
                 makeProfile(v, 2, <<rate("r1", 10), rate("r2", 20)>>, deds2),
                 makeProfile(v, 3, <<rate("r1", 10)>>, <<>>)>> :
                 shapes1 \in [1..n -> {fixedTax, percentTax}],
                 to1 \in [1..n -> {"", "p2"}],
                 deds2 \in {<<>>, withIdsFrom(MaxTransferDeductions + 1, <<percentTax>>,
                                              <<0>>, <<"p1">>)}} :
              n \in 1..MaxTransferDeductions}
  ELSE {ps \in GrossProfiles(v) : Len(ps) = 2}

DeleteEntries ==
  {<<tenHours, twoHours>>, <<twoHours, tenHours, unmatchedHours>>}

InitDelete ==
  \E v \in Variants :
    \E ps \in DeleteProfiles(v) :
      \E shapes \in DeleteEntries :
        Loaded(v, ps, makeEntries(v, shapes), NoMap)

SpecDelete == InitDelete /\ [][NextDelete]_vars

-----------------------------------------------------------------------------
(* Form inputs: the StepByStep and Transfer builds, started                 *)
(* with nothing stored, or with one profile an earlier session saved        *)
(* through the form and one time entry of it.                               *)

savedProfile(v) ==
  LET saved == [id |-> "p1", name |-> "Bob",
                hourlyRates |-> <<[id |-> "r1", label |-> "Std", rate |-> euro(10)]>>,
                deductions |-> <<[id |-> "d1", name |-> "Tax", amount |-> 10,
                                  type |-> "percentage", priority |-> 0]>>]
  IN  IF v = "Transfer"
      THEN [saved EXCEPT !.deductions = <<@[1] @@ [recipientProfileId |-> ""]>>]
      ELSE saved @@ [clientRates |-> <<>>, profitDistributions |-> <<>>]

InitForm ==
  \E v \in {"StepByStep", "Transfer"} :
    \/ Loaded(v, <<>>, <<>>, NoMap)
    \/ Loaded(v, <<savedProfile(v)>>, makeEntries(v, <<tenHours>>), NoMap)

SpecForm == InitForm /\ [][NextForm]_vars

-----------------------------------------------------------------------------
(* Revenue-calculator inputs: the StepByStep and ClientRate builds; one     *)
(* profile with the worker rates r1 = 25 and r2 = 10, client rates linked   *)
(* to the first rate, the second (below the worker rate), both or none (a   *)
(* client rate of 0 is what addClientRate puts in the form), profit         *)
(* distributions of both kinds,                                             *)
(* at most one deduction, and up to MaxEntries entries of 4 or 10 hours.    *)

clientRate(id, euros, index) ==
  [id |-> id, label |-> "Client", rate |-> euro(euros), employeeRateId |-> index]

ClientRateConfigs ==
  {<<>>,
   <<clientRate("c1", 40, "0")>>,
   <<clientRate("c1", 5, "1")>>,
   <<clientRate("c1", 40, "")>>,
   <<clientRate("c1", 0, "1")>>,
   <<clientRate("c1", 40, "0"), clientRate("c2", 0, "1")>>}

marginOfPay == [id |-> "m1", name |-> "Agency", type |-> "margin", percentage |-> 10]
shareOfMargin == [id |-> "m2", name |-> "Partner", type |-> "profit_share", percentage |-> 50]

ProfitDistributionConfigs ==
  {<<>>, <<marginOfPay>>, <<shareOfMargin>>, <<marginOfPay, shareOfMargin>>}

RevenueEntryShapes == [profileId : {"p1"}, hourlyRateId : {"r1", "r2", NoSuchRate}, hours : {4, 10}]

InitRevenue ==
  \E v \in {"StepByStep", "ClientRate"} :
    \E cfg \in [clients : ClientRateConfigs, dists : ProfitDistributionConfigs,
                 deds : {<<>>, inFormOrder(<<percentTax>>)}] :
      \E shapes \in SeqsUpTo(RevenueEntryShapes, MaxEntries) :
        Loaded(v,
               <<[makeProfile(v, 1, <<rate("r1", 25), rate("r2", 10)>>, cfg.deds)
                    EXCEPT !.clientRates = cfg.clients,
                           !.profitDistributions = cfg.dists]>>,
               makeEntries(v, shapes), NoMap)

SpecRevenue == InitRevenue /\ [][Next]_vars

-----------------------------------------------------------------------------
(* Import.  A document is what JSON.parse makes of the chosen file.  Of a   *)
(* field the handler reads no more than whether it is truthy and whether    *)
(* its .map(...) goes through: "absent" is a field that is missing, null,   *)
(* 0, "" or false; "unprocessable" is a truthy value without .map (a text,  *)
(* a number, an object) or an array with a null element, on which the       *)
(* callback throws a TypeError; "array" is an array of objects.  The        *)
(* profiles and entries of the model carry no date fields: new Date(text)   *)
(* of a field never throws, so the re-hydration changes no other field.    *)

absentField == [kind |-> "absent", items |-> <<>>]
unprocessableField == [kind |-> "unprocessable", items |-> <<>>]
arrayField(items) == [kind |-> "array", items |-> items]

\* A file that JSON.parse rejects.
notJson == [parses |-> FALSE, profiles |-> absentField, hoursEntries |-> absentField]

importFailed == "Fout bij importeren van data. Controleer of het bestand geldig is."
importSucceeded == "Data succesvol geimporteerd!"

\* The profiles after reader.onload: setProfiles(importedProfiles) is reached
\* when the document parses and data.profiles is truthy and maps.
profilesAfterImport(ps, document) ==
  IF document.parses /\ document.profiles.kind = "array"
  THEN document.profiles.items ELSE ps

\* Whether the try block throws before it sets hoursEntries.
importThrows(document) ==
  \/ ~document.parses
  \/ document.profiles.kind = "unprocessable"
  \/ document.hoursEntries.kind = "unprocessable"

\* The time entries after reader.onload.
hoursAfterImport(entries, document) ==
  IF ~importThrows(document) /\ document.hoursEntries.kind = "array"
  THEN document.hoursEntries.items ELSE entries

\* The cells reader.onload sets.
importSets(document) ==
  (IF document.parses /\ document.profiles.kind = "array"
   THEN {"profiles"} ELSE {})
  \cup (IF ~importThrows(document) /\ document.hoursEntries.kind = "array"
        THEN {"hoursEntries"} ELSE {})

\* reader.onload of importData, for the document read.
onload(document) ==
  /\ profiles' = profilesAfterImport(profiles, document)
  /\ hoursEntries' = hoursAfterImport(hoursEntries, document)
  /\ alerted' = IF importThrows(document) THEN importFailed ELSE importSucceeded
  /\ changed' = changed \cup importSets(document)
  /\ UNCHANGED <<variant, appliedDeductions, calculations, clientPayment,
                 paymentDistribution, computed, localStorage, profileForm,
                 isProfileModalOpen, editingProfile, isDeleteModalOpen,
                 profileToDelete, generated>>

\* The profiles of the documents: none, p2 with two rates, and p1 with the
\* deduction d2 where the stored p1 has d1.
importedProfiles(v) ==
  {<<>>,
   <<makeProfile(v, 2, <<rate("r1", 10), rate("r2", 20)>>, <<>>)>>,
   <<makeProfile(v, 1, <<rate("r1", 10)>>, withIdsFrom(2, <<fixedTax>>, <<0>>, <<"">>))>>}

\* The time entries of the documents: none, or 2 h of p2.
importedHours(v) ==
  {<<>>, [j \in 1..1 |-> [makeEntries(v, <<twoHours>>)[j] EXCEPT !.id = "e2"]]}

ImportDocuments(v) ==
  {notJson}
  \cup [parses : {TRUE},
        profiles : {absentField, unprocessableField}
                     \cup {arrayField(ps) : ps \in importedProfiles(v)},
        hoursEntries : {absentField, unprocessableField}
                         \cup {arrayField(entries) : entries \in importedHours(v)}]

\* The file input of the page, with no dialog over it.
importData ==
  /\ ~isProfileModalOpen /\ ~isDeleteModalOpen
  /\ \E document \in ImportDocuments(variant) : onload(document)

NextImport == Next \/ importData

(* Import inputs: every build, with nothing stored or with p1 (one rate,    *)
(* the percentage tax d1) and 10 h of it.                                   *)

InitImport ==
  \E v \in Variants :
    \/ Loaded(v, <<>>, <<>>, NoMap)
    \/ Loaded(v, <<makeProfile(v, 1, <<rate("r1", 10)>>, inFormOrder(<<percentTax>>))>>,
              makeEntries(v, <<tenHours>>), NoMap)

SpecImport == InitImport /\ [][NextImport]_vars

-----------------------------------------------------------------------------
(* Mode inputs: the three builds with independent deductions; p1 with one   *)
(* or two deductions (a fixed or a percentage tax, a profit share, or a     *)
(* percentage whose name has both role words) and 10 h or 1 h at 10 euro.   *)

feeShare == [name |-> "Profit Share MGMT Fee", amount |-> 10, type |-> "percentage"]
oneHour == [profileId |-> "p1", hourlyRateId |-> "r1", hours |-> 1]

ModeDeductions ==
  UNION {{inFormOrder(shapes) :
            shapes \in [1..n -> {fixedTax, percentTax, profitShare, feeShare}]} :
         n \in 1..2}

InitModes ==
  \E v \in Variants \ {"Transfer"} :
    \E deds \in ModeDeductions :
      \E shapes \in {<<tenHours>>, <<oneHour>>} :
        Loaded(v, <<makeProfile(v, 1, <<rate("r1", 10)>>, deds)>>,
               makeEntries(v, shapes), NoMap)

SpecModes == InitModes /\ [][Next]_vars

-----------------------------------------------------------------------------
(* Edit inputs: the StepByStep and Transfer builds with one stored profile  *)
(* of two rates (10 and 20 euro) and two deductions (the percentage tax and *)
(* a fixed one), with 10 h on each rate; the form is opened on it, rows are *)
(* removed, and it is saved.  No row is retyped, so a row of the form is    *)
(* known by its content.                                                    *)

twoRateProfile(v) ==
  LET saved == savedProfile(v)
  IN  [saved EXCEPT
         !.hourlyRates = Append(@, [id |-> "r2", label |-> "Std", rate |-> euro(20)]),
         !.deductions = Append(@, [@[1] EXCEPT !.id = "d2", !.amount = euro(2),
                                               !.type = "fixed", !.priority = 1])]

NextEdit ==
  \/ runEffects
  \/ editProfile
  \/ removeHourlyRate \/ removeDeduction
  \/ handleSaveProfile

InitEdit ==
  \E v \in {"StepByStep", "Transfer"} :
    Loaded(v, <<twoRateProfile(v)>>,
           makeEntries(v, <<tenHours, [tenHours EXCEPT !.hourlyRateId = "r2"]>>), NoMap)

SpecEdit == InitEdit /\ [][NextEdit]_vars

-----------------------------------------------------------------------------
(* Time entries (StepByStep, ClientRate and Transfer builds).  The hours    *)
(* form is what its selects and its number input leave in it:               *)
(* handleAddHours needs a profile and puts the first profile and its first  *)
(* rate in the form, the profile select offers "" and the profiles and sets *)
(* the first rate of the one chosen, the rate select offers "" and the      *)
(* rates of the chosen profile, the input gives 0 for an empty text.  The   *)
(* form covers the page while it is open.                                   *)

HoursForms(ps) ==
  [profileId : {""}, hourlyRateId : {""}, hours : {0, 2}]
  \cup UNION {[profileId : {ps[i].id},
               hourlyRateId : {""} \cup {ps[i].hourlyRates[k].id :
                                           k \in 1..Len(ps[i].hourlyRates)},
               hours : {0, 2}] : i \in 1..Len(ps)}

\* !hoursForm.profileId || !hoursForm.hourlyRateId || hoursForm.hours <= 0
rejectsHours(form) ==
  form.profileId = "" \/ form.hourlyRateId = "" \/ form.hours <= 0

\* The Save button of the hours form.
handleSaveHours ==
  /\ variant # "SingleRate" /\ changed = {}
  /\ ~isProfileModalOpen /\ ~isDeleteModalOpen
  /\ Len(profiles) > 0
  /\ \E hoursForm \in HoursForms(profiles) :
       IF rejectsHours(hoursForm)
       THEN /\ alerted' = "Selecteer een profiel, uurtarief en voer geldige uren in"
            /\ UNCHANGED <<variant, profiles, hoursEntries, appliedDeductions,
                           calculations, clientPayment, paymentDistribution, changed,
                           computed, localStorage, profileForm, isProfileModalOpen,
                           editingProfile, isDeleteModalOpen, profileToDelete, generated>>
       ELSE /\ generated < MaxGenerated
            /\ hoursEntries' = Append(hoursEntries,
                 [id |-> generateId(generated + 1), profileId |-> hoursForm.profileId,
                  hourlyRateId |-> hoursForm.hourlyRateId, hours |-> hoursForm.hours])
            /\ generated' = generated + 1
            /\ changed' = changed \cup {"hoursEntries"}
            /\ UNCHANGED <<variant, profiles, appliedDeductions, calculations,
                           clientPayment, paymentDistribution, computed, localStorage,
                           profileForm, isProfileModalOpen, editingProfile,
                           isDeleteModalOpen, profileToDelete, alerted>>

\* The delete button of a time entry (StepByStep): confirm(), then
\* setHoursEntries(hoursEntries.filter(entry => entry.id !== entryId)).
handleDeleteHourEntry ==
  /\ variant = "StepByStep" /\ changed = {}
  /\ ~isProfileModalOpen /\ ~isDeleteModalOpen
  /\ \E j \in 1..Len(hoursEntries) : \E confirmed \in BOOLEAN :
       IF confirmed
       THEN /\ hoursEntries' = SelectSeq(hoursEntries,
                                         LAMBDA entry : entry.id # hoursEntries[j].id)
            /\ changed' = changed \cup {"hoursEntries"}
            /\ UNCHANGED <<variant, profiles, appliedDeductions, calculations,
                           clientPayment, paymentDistribution, computed, localStorage,
                           dialogs>>
       ELSE UNCHANGED vars

NextSession ==
  \/ runEffects
  \/ handleAddProfile \/ editProfile
  \/ setName \/ addHourlyRate \/ removeHourlyRate \/ updateHourlyRate
  \/ handleSaveProfile
  \/ handleSaveHours \/ handleDeleteHourEntry
  \/ DeleteProfile \/ confirmDeleteProfile

(* Session inputs: the StepByStep and Transfer builds, started with nothing *)
(* stored.                                                                  *)

InitSession ==
  \E v \in {"StepByStep", "Transfer"} : Loaded(v, <<>>, <<>>, NoMap)

SpecSession == InitSession /\ [][NextSession]_vars

-----------------------------------------------------------------------------
(* Properties.  They read `calculations` against `computed`, the inputs the *)
(* last calculateTotals started from.                                      *)

RECURSIVE sumOf(_, _)
\* The sum of f[x] over x in S, for a function f.
sumOf(f, S) ==
  IF S = {} THEN 0
  ELSE LET x == CHOOSE y \in S : TRUE IN f[x] + sumOf(f, S \ {x})

\* One result per profile, in the order of the profiles.
resultsMatchProfiles ==
  /\ Len(calculations) = Len(computed.profiles)
  /\ \A i \in 1..Len(calculations) : calculations[i].profileId = computed.profiles[i].id

\* The builds whose entries name a rate of profile.hourlyRates.
hasRateIds == variant # "SingleRate"

\* The rates of profile p that entry e names (one at most: rate ids are unique).
namedRates(p, e) == {r \in 1..Len(p.hourlyRates) : p.hourlyRates[r].id = e.hourlyRateId}

\* The entries of profile p whose rate resolves.
resolvedEntries(p) ==
  {j \in 1..Len(computed.hoursEntries) :
     /\ computed.hoursEntries[j].profileId = p.id
     /\ namedRates(p, computed.hoursEntries[j]) # {}}

\* hours * rate of the entries of p whose rate resolves.
resolvedGross(p) ==
  sumOf([j \in resolvedEntries(p) |->
           LET e == computed.hoursEntries[j]
           IN  sumOf([r \in namedRates(p, e) |-> e.hours * p.hourlyRates[r].rate],
                     namedRates(p, e))],
        resolvedEntries(p))

\* C1: grossAmount of every profile is the sum of hours * rate over its
\* entries whose hourlyRateId is the id of one of its rates; entries with an
\* unmatched rate id or an unknown profileId add nothing.
C1_GrossAmount ==
  hasRateIds =>
    /\ resultsMatchProfiles
    /\ \A i \in 1..Len(calculations) :
         calculations[i].grossAmount = resolvedGross(computed.profiles[i])

\* A profile with a resolved entry, an entry on a rate that does not exist
\* and, beside them, an entry of a profile that does not exist.
C1_Witness ==
  /\ hasRateIds
  /\ Len(calculations) >= 1
  /\ calculations[1].grossAmount > 0
  /\ \E j \in 1..Len(computed.hoursEntries) :
       LET e == computed.hoursEntries[j]
       IN  \/ e.profileId = "p1" /\ e.hourlyRateId = NoSuchRate
           \/ e.profileId = NoSuchProfile

\* C2 (as claimed): totalHours of every profile counts only the entries
\* whose rate resolves.
C2_TotalHoursOnlyResolved ==
  hasRateIds =>
    \A i \in 1..Len(calculations) :
      calculations[i].totalHours =
        sumOf([j \in resolvedEntries(computed.profiles[i]) |->
                 computed.hoursEntries[j].hours],
              resolvedEntries(computed.profiles[i]))

\* C3: every result has netAmount = grossAmount - totalDeductions, plus
\* receivedFromOthers in the Transfer build.
C3_NetAmount ==
  \A i \in 1..Len(calculations) :
    LET r == calculations[i]
    IN  r.netAmount = r.grossAmount - r.totalDeductions
                      + (IF variant = "Transfer" THEN r.receivedFromOthers ELSE 0)

\* A Transfer result that received money and has deductions of its own to
\* tell apart.
C3_Witness ==
  /\ variant = "Transfer"
  /\ \E i \in 1..Len(calculations) :
       /\ calculations[i].receivedFromOthers > 0
       /\ calculations[i].netAmount # calculations[i].grossAmount
  /\ \E i \in 1..Len(calculations) : calculations[i].totalDeductions > 0

\* Whether the last calculateTotals read the deduction as switched off / on
\* in the Transfer build: only a stored false switches it off.
readAsOff(pid, did) ==
  /\ deductionKey(pid, did) \in DOMAIN computed.appliedDeductions
  /\ computed.appliedDeductions[deductionKey(pid, did)] = FALSE

readAsOn(pid, did) == ~readAsOff(pid, did)

\* The position in p.deductions (as calculateTotals found it) of the
\* deduction with this id.
positionOf(p, did) == CHOOSE k \in 1..Len(p.deductions) : p.deductions[k].id = did

\* The deduction of p that breakdown row `row` is about.
deductionOfRow(p, row) == p.deductions[positionOf(p, row.deductionId)]

breakdownCoversDeductions(p, breakdown) ==
  /\ Len(breakdown) = Len(p.deductions)
  /\ {breakdown[k].deductionId : k \in 1..Len(breakdown)}
       = {p.deductions[k].id : k \in 1..Len(p.deductions)}

\* C4: sequential mode processes the deductions of a profile by ascending
\* priority whatever their order in the array, and deductions of equal
\* priority in their order in the array.
C4_PriorityOrder ==
  variant = "Transfer" =>
    /\ resultsMatchProfiles
    /\ \A i \in 1..Len(calculations) :
         LET p == computed.profiles[i]
             b == calculations[i].deductionBreakdown
         IN  /\ breakdownCoversDeductions(p, b)
             /\ \A x, y \in 1..Len(b) :
                  x < y =>
                    LET dx == deductionOfRow(p, b[x])
                        dy == deductionOfRow(p, b[y])
                    IN  \/ dx.priority < dy.priority
                        \/ /\ dx.priority = dy.priority
                           /\ positionOf(p, dx.id) < positionOf(p, dy.id)

\* Priorities [2,0,1] in the array, processed as 0, 1, 2.
C4_Witness ==
  /\ variant = "Transfer"
  /\ Len(calculations) >= 1
  /\ Len(computed.profiles[1].deductions) = 3
  /\ [k \in 1..3 |-> computed.profiles[1].deductions[k].priority] = <<2, 0, 1>>
  /\ [k \in 1..3 |-> calculations[1].deductionBreakdown[k].deductionId]
       = <<"d2", "d3", "d1">>

\* remainingAmount when row x of the breakdown is processed.
remainingBefore(r, x) ==
  r.grossAmount - SumSeq([k \in 1..(x - 1) |-> r.deductionBreakdown[k].amount])

\* C5: in sequential mode, from remainingAmount = grossAmount, an applied
\* fixed deduction takes amount * totalHours, an applied ordinary percentage
\* takes amount % of remainingAmount as it is when the deduction is processed;
\* totalDeductions = grossAmount - remainingAmount and the Phase-1 netAmount
\* is the final remainingAmount.
C5_SequentialAmounts ==
  variant = "Transfer" =>
    /\ resultsMatchProfiles
    /\ \A i \in 1..Len(calculations) :
         LET p == computed.profiles[i]
             r == calculations[i]
             b == r.deductionBreakdown
             final == remainingBefore(r, Len(b) + 1)
         IN  /\ breakdownCoversDeductions(p, b)
             /\ \A x \in 1..Len(b) :
                  LET d == deductionOfRow(p, b[x])
                  IN  readAsOn(p.id, d.id) =>
                        /\ d.type = "fixed" => b[x].amount = d.amount * r.totalHours
                        /\ d.type = "percentage" /\ ~includes(d.name, "Profit Share") =>
                             b[x].amount * 100 = remainingBefore(r, x) * d.amount
             /\ r.totalDeductions = r.grossAmount - final
             /\ r.netAmount - r.receivedFromOthers = final

\* Scenario C: 10 h at 10 euro, fixed 2 per hour then 10 %: 100 -> 80 -> 72.
C5_Witness ==
  /\ variant = "Transfer"
  /\ Len(calculations) >= 1
  /\ calculations[1].totalHours = 10
  /\ calculations[1].grossAmount = euro(100)
  /\ [k \in 1..Len(calculations[1].deductionBreakdown) |->
        <<calculations[1].deductionBreakdown[k].type,
          calculations[1].deductionBreakdown[k].amount>>]
       = <<<<"fixed", euro(20)>>, <<"percentage", euro(8)>>>>
  /\ calculations[1].netAmount = euro(72)

\* The applied fixed "Salary" deductions and the applied percentage
\* "MGMT Fee" deductions of p.
appliedSalaries(p) ==
  {k \in 1..Len(p.deductions) :
     /\ readAsOn(p.id, p.deductions[k].id)
     /\ p.deductions[k].type = "fixed"
     /\ includes(p.deductions[k].name, "Salary")}

appliedMgmtFees(p) ==
  {k \in 1..Len(p.deductions) :
     /\ readAsOn(p.id, p.deductions[k].id)
     /\ p.deductions[k].type = "percentage"
     /\ includes(p.deductions[k].name, "MGMT Fee")}

\* grossAmount less the applied fixed Salary deduction * totalHours, less the
\* applied percentage MGMT Fee taken on what is left.
profitBase(p, r) ==
  LET afterSalary ==
        r.grossAmount
        - sumOf([k \in appliedSalaries(p) |-> p.deductions[k].amount * r.totalHours],
                appliedSalaries(p))
  IN  afterSalary
      - sumOf([k \in appliedMgmtFees(p) |-> (afterSalary * p.deductions[k].amount) \div 100],
              appliedMgmtFees(p))

\* C6 (as claimed): an applied percentage "Profit Share" deduction takes
\* amount % of grossAmount less the applied fixed Salary deduction and the
\* applied percentage MGMT Fee deduction, whenever the profile has them
\* (stated for profiles with at most one of each).
C6_ProfitShareBase ==
  variant = "Transfer" =>
    \A i \in 1..Len(calculations) :
      LET p == computed.profiles[i]
          r == calculations[i]
      IN  Cardinality(appliedSalaries(p)) <= 1 /\ Cardinality(appliedMgmtFees(p)) <= 1 =>
            \A x \in 1..Len(r.deductionBreakdown) :
              LET d == deductionOfRow(p, r.deductionBreakdown[x])
              IN  /\ readAsOn(p.id, d.id)
                  /\ d.type = "percentage"
                  /\ includes(d.name, "Profit Share")
                  => r.deductionBreakdown[x].amount * 100 = profitBase(p, r) * d.amount

\* The profiles calculateTotals read, without the deductions it read as off.
withoutOff(ps) ==
  [i \in 1..Len(ps) |->
     [ps[i] EXCEPT !.deductions =
        SelectSeq(ps[i].deductions, LAMBDA d : readAsOn(ps[i].id, d.id))]]

\* The rows of the deductions read as on, in breakdown order.
rowsOn(p, breakdown) ==
  SelectSeq(breakdown, LAMBDA row : readAsOn(p.id, row.deductionId))

\* Every deduction read as off has a row of amount 0, and every figure of
\* every profile is what it would be had those deductions not been defined:
\* nothing subtracted, nothing fed into a profit share, nothing received.
C7_OffContributesNothing ==
  variant = "Transfer" =>
    LET without == calculationsOf("Transfer", withoutOff(computed.profiles),
                                  computed.hoursEntries, computed.appliedDeductions)
    IN  /\ resultsMatchProfiles
        /\ \A i \in 1..Len(calculations) :
             LET p == computed.profiles[i]
                 r == calculations[i]
             IN  /\ breakdownCoversDeductions(p, r.deductionBreakdown)
                 /\ \A x \in 1..Len(r.deductionBreakdown) :
                      readAsOff(p.id, r.deductionBreakdown[x].deductionId)
                        => r.deductionBreakdown[x].amount = 0
                 /\ rowsOn(p, r.deductionBreakdown) = without[i].deductionBreakdown
                 /\ r.grossAmount = without[i].grossAmount
                 /\ r.totalDeductions = without[i].totalDeductions
                 /\ r.receivedFromOthers = without[i].receivedFromOthers
                 /\ r.netAmount = without[i].netAmount

\* A step that switches a deduction off leaves every profile as it is.
C7_OffKeepsDefinition ==
  (\E key \in DOMAIN appliedDeductions' :
     /\ appliedDeductions'[key] = FALSE
     /\ ~(key \in DOMAIN appliedDeductions /\ appliedDeductions[key] = FALSE))
  => profiles' = profiles

computedWithDefaults ==
  [key \in (DOMAIN computed.appliedDeductions) \cup deductionKeys(computed.profiles) |->
     IF key \in DOMAIN computed.appliedDeductions
     THEN computed.appliedDeductions[key] ELSE TRUE]

\* C8 (as claimed): in every build with an applied-state map, a deduction
\* with no entry in the map is computed as applied: the results are those of
\* the map with true stored for it.
C8_MissingKeyIsApplied ==
  hasAppliedMap(variant) =>
    calculations = calculationsOf(variant, computed.profiles, computed.hoursEntries,
                                  computedWithDefaults)

\* The deductions of the profile at position o that are on and paid to the
\* profile with id `toId`.
paidTo(o, toId) ==
  {k \in 1..Len(computed.profiles[o].deductions) :
     /\ computed.profiles[o].deductions[k].recipientProfileId = toId
     /\ readAsOn(computed.profiles[o].id, computed.profiles[o].deductions[k].id)}

\* The amount in the breakdown of result o of the deduction at position k of
\* profile o.
amountOf(o, k) ==
  LET b == calculations[o].deductionBreakdown
      x == CHOOSE y \in 1..Len(b) : b[y].deductionId = computed.profiles[o].deductions[k].id
  IN  b[x].amount

\* What the profile at position i is paid by the deductions of the others.
paidByOthers(i) ==
  LET others == {o \in 1..Len(computed.profiles) :
                   computed.profiles[o].id # computed.profiles[i].id}
  IN  sumOf([o \in others |->
               sumOf([k \in paidTo(o, computed.profiles[i].id) |-> amountOf(o, k)],
                     paidTo(o, computed.profiles[i].id))],
            others)

\* C9: receivedFromOthers of every profile P is the sum of the breakdown
\* amounts of exactly the applied deductions of the other profiles whose
\* recipientProfileId is P.id, and P's netAmount is its Phase-1 netAmount
\* (grossAmount - totalDeductions) plus that.
C9_ReceivedFromOthers ==
  variant = "Transfer" =>
    /\ resultsMatchProfiles
    /\ \A i \in 1..Len(calculations) :
         /\ breakdownCoversDeductions(computed.profiles[i],
                                      calculations[i].deductionBreakdown)
         /\ calculations[i].receivedFromOthers = paidByOthers(i)
         /\ calculations[i].netAmount =
              (calculations[i].grossAmount - calculations[i].totalDeductions)
              + paidByOthers(i)

\* A cycle: p1 pays p2 and p2 pays p1; p1 also has a deduction paid to
\* itself, which it does not receive.
C9_Witness ==
  /\ variant = "Transfer"
  /\ Len(calculations) = 2
  /\ calculations[1].receivedFromOthers > 0
  /\ calculations[2].receivedFromOthers > 0
  /\ calculations[1].receivedFromOthers # calculations[2].receivedFromOthers
  /\ \E k \in paidTo(1, "p1") : amountOf(1, k) > 0

\* The deductions (profile position, deduction position) whose recipient is
\* not another profile that exists: kept, paid to the profile itself, or
\* paid to a profile that does not exist.
noValidRecipient ==
  {ik \in UNION {{<<i, k>> : k \in 1..Len(computed.profiles[i].deductions)} :
                   i \in 1..Len(computed.profiles)} :
     LET to == computed.profiles[ik[1]].deductions[ik[2]].recipientProfileId
     IN  ~ \E o \in 1..Len(computed.profiles) :
             /\ computed.profiles[o].id = to
             /\ to # computed.profiles[ik[1]].id}

\* C10: the netAmounts of all profiles sum to the grossAmounts of all
\* profiles less the amounts of the deductions that have no valid recipient.
C10_Conservation ==
  variant = "Transfer" =>
    /\ resultsMatchProfiles
    /\ \A i \in 1..Len(calculations) :
         breakdownCoversDeductions(computed.profiles[i], calculations[i].deductionBreakdown)
    /\ SumSeq([i \in 1..Len(calculations) |-> calculations[i].netAmount])
         = SumSeq([i \in 1..Len(calculations) |-> calculations[i].grossAmount])
           - sumOf([ik \in noValidRecipient |-> amountOf(ik[1], ik[2])], noValidRecipient)

\* Scenario D: the only deduction is one of p1 paid to p2: p1's net goes down
\* by what p2 receives and the total over both is the total gross.
C10_Witness ==
  /\ variant = "Transfer"
  /\ Len(calculations) = 2
  /\ Len(computed.profiles[1].deductions) = 1
  /\ Len(computed.profiles[2].deductions) = 0
  /\ calculations[2].receivedFromOthers = calculations[1].totalDeductions
  /\ calculations[1].totalDeductions > 0
  /\ calculations[1].netAmount
       = calculations[1].grossAmount - calculations[2].receivedFromOthers
  /\ calculations[2].netAmount
       = calculations[2].grossAmount + calculations[2].receivedFromOthers
  /\ calculations[1].netAmount + calculations[2].netAmount
       = calculations[1].grossAmount + calculations[2].grossAmount

\* The deductions (profile position, deduction position) whose recipient is
\* named but is no profile calculateTotals read.
danglingRecipient ==
  {ik \in UNION {{<<i, k>> : k \in 1..Len(computed.profiles[i].deductions)} :
                   i \in 1..Len(computed.profiles)} :
     LET to == computed.profiles[ik[1]].deductions[ik[2]].recipientProfileId
     IN  /\ to # ""
         /\ \A o \in 1..Len(computed.profiles) : computed.profiles[o].id # to}

\* The row of the breakdown of result i that is about the deduction at
\* position k of profile i.
rowOf(i, k) ==
  LET b == calculations[i].deductionBreakdown
  IN  CHOOSE y \in 1..Len(b) : b[y].deductionId = computed.profiles[i].deductions[k].id

\* C11: a deduction whose recipientProfileId names no existing profile (the
\* recipient was deleted) still takes its full amount, the amount is counted
\* in totalDeductions of the deducting profile, and what all profiles
\* receive together is what was deducted less the amounts without a valid
\* recipient: nobody receives it.
C11_DanglingRecipient ==
  variant = "Transfer" =>
    /\ resultsMatchProfiles
    /\ \A i \in 1..Len(calculations) :
         /\ breakdownCoversDeductions(computed.profiles[i],
                                      calculations[i].deductionBreakdown)
         /\ calculations[i].totalDeductions =
              SumSeq([x \in 1..Len(calculations[i].deductionBreakdown) |->
                        calculations[i].deductionBreakdown[x].amount])
    /\ \A ik \in danglingRecipient :
         LET r == calculations[ik[1]]
             d == computed.profiles[ik[1]].deductions[ik[2]]
             x == rowOf(ik[1], ik[2])
         IN  readAsOn(computed.profiles[ik[1]].id, d.id) /\ ~includes(d.name, "Profit Share")
             => IF d.type = "fixed"
                THEN r.deductionBreakdown[x].amount = d.amount * r.totalHours
                ELSE r.deductionBreakdown[x].amount * 100 = remainingBefore(r, x) * d.amount
    /\ SumSeq([i \in 1..Len(calculations) |-> calculations[i].receivedFromOthers])
         = SumSeq([i \in 1..Len(calculations) |-> calculations[i].totalDeductions])
           - sumOf([ik \in noValidRecipient |-> amountOf(ik[1], ik[2])], noValidRecipient)

\* p2 was deleted; p1 still has an applied deduction paid to p2, which takes
\* its amount from p1, and neither p1 nor p3 receives anything.
C11_Witness ==
  /\ variant = "Transfer"
  /\ [i \in 1..Len(calculations) |-> calculations[i].profileId] = <<"p1", "p3">>
  /\ \E ik \in danglingRecipient :
       /\ computed.profiles[ik[1]].deductions[ik[2]].recipientProfileId = "p2"
       /\ amountOf(ik[1], ik[2]) > 0
  /\ calculations[1].totalDeductions > 0
  /\ \A i \in 1..Len(calculations) : calculations[i].receivedFromOthers = 0

\* The ids of the profiles of a list.
idsOf(ps) == {ps[i].id : i \in 1..Len(ps)}

\* A step that removes a profile removes exactly one, with every time entry
\* of that profile and nothing else, and localStorage holds the same lists.
C19_DeleteStep ==
  Len(profiles') < Len(profiles) =>
    LET gone == idsOf(profiles) \ idsOf(profiles')
    IN  /\ Cardinality(gone) = 1
        /\ \A j \in 1..Len(hoursEntries') : hoursEntries'[j].profileId \notin gone
        /\ profiles' = SelectSeq(profiles, LAMBDA p : p.id \notin gone)
        /\ hoursEntries' = SelectSeq(hoursEntries, LAMBDA h : h.profileId \notin gone)
        /\ localStorage'.profiles = profiles'
        /\ localStorage'.hoursEntries = hoursEntries'

\* C19: deleting profile P leaves no stored time entry of P, leaves every
\* other profile and every entry of another profile unchanged, and the same
\* holds for the copies in localStorage.
C19_DeleteCascades == [][C19_DeleteStep]_vars

\* p1, which had time entries, was deleted since the last calculation: no
\* entry of p1 is left, entries of others are, and localStorage agrees.
C19_Witness ==
  /\ "p1" \in idsOf(computed.profiles) \ idsOf(profiles)
  /\ \E j \in 1..Len(computed.hoursEntries) : computed.hoursEntries[j].profileId = "p1"
  /\ \A j \in 1..Len(hoursEntries) : hoursEntries[j].profileId # "p1"
  /\ Len(hoursEntries) > 0
  /\ Len(profiles) > 0
  /\ localStorage.profiles = profiles
  /\ localStorage.hoursEntries = hoursEntries

\* The positions in computed.hoursEntries of the entries of profile p whose
\* worker rate is found.
resolvedOf(p) ==
  {j \in 1..Len(computed.hoursEntries) :
     /\ computed.hoursEntries[j].profileId = p.id
     /\ namedRates(p, computed.hoursEntries[j]) # {}}

\* The client rates of p linked to the worker rate of entry e by the index
\* of that rate in p.hourlyRates.
linkedRates(p, e) ==
  {c \in 1..Len(p.clientRates) :
     \E r \in namedRates(p, e) :
       /\ \A q \in namedRates(p, e) : r <= q
       /\ p.clientRates[c].employeeRateId = indexToString(r - 1)}

\* The rate per hour the client pays for entry e: the first linked client
\* rate, or twice the worker rate when none is linked.
billedPerHour(p, e) ==
  IF linkedRates(p, e) # {}
  THEN p.clientRates[CHOOSE c \in linkedRates(p, e) :
                       \A b \in linkedRates(p, e) : c <= b].rate
  ELSE 2 * p.hourlyRates[CHOOSE r \in namedRates(p, e) :
                           \A q \in namedRates(p, e) : r <= q].rate

\* Hours times the billed rate, summed over the entries at the positions J.
billedFor(p, J) ==
  sumOf([j \in J |-> computed.hoursEntries[j].hours
                       * billedPerHour(p, computed.hoursEntries[j])], J)

\* The entries of p with a worker rate that has a client rate linked.
linkedOf(p) == {j \in resolvedOf(p) : linkedRates(p, computed.hoursEntries[j]) # {}}

C13_ProfitDistributions ==
  variant \in {"StepByStep", "ClientRate"} =>
    /\ resultsMatchProfiles
    /\ \A i \in 1..Len(calculations) :
         LET p == computed.profiles[i]
             rb == calculations[i].revenueBreakdown
         IN  /\ Len(rb.profitDistribution) = Len(p.profitDistributions)
             /\ rb.employeePayment = resolvedGross(p)
             /\ \A k \in 1..Len(p.profitDistributions) :
                  LET dist == p.profitDistributions[k]
                      out == rb.profitDistribution[k]
                  IN  /\ out.name = dist.name
                      /\ out.percentage = dist.percentage
                      /\ dist.type = "margin" =>
                           out.amount * 100 = rb.employeePayment * dist.percentage
                      /\ dist.type = "profit_share" =>
                           out.amount * 100
                             = (rb.clientPayment - rb.employeePayment) * dist.percentage

\* A profile with a margin and a profit share, both paid, whose margin
\* differs from its worker pay, and with an applied deduction.
C13_Witness ==
  /\ variant \in {"StepByStep", "ClientRate"}
  /\ Len(calculations) = 1
  /\ calculations[1].totalDeductions > 0
  /\ LET rb == calculations[1].revenueBreakdown
     IN  /\ Len(rb.profitDistribution) = 2
         /\ rb.profitMargin # rb.employeePayment
         /\ rb.profitDistribution[1].amount * 10 = rb.employeePayment
         /\ rb.profitDistribution[2].amount * 2 = rb.profitMargin
         /\ rb.profitDistribution[2].amount > 0

\* A quotient with a positive denominator in lowest terms.
reduced(q) ==
  LET g == gcd(IF q.num < 0 THEN 0 - q.num ELSE q.num, q.den)
  IN  quotient(q.num \div g, q.den \div g)

\* a = b, and a = b * k, for quotients a, b and an integer k
qSame(a, b) == a.den > 0 /\ b.den > 0 /\ reduced(a) = reduced(b)
qIsTimes(a, b, k) == qSame(a, quotient(b.num * k, b.den))

\* C14: in the step-by-step build the worker rate per hour is
\* employeePayment / totalHours, the leftover is client rate - worker rate,
\* the management fee is max(0, leftover / 10), the residual profit is
\* max(0, leftover - fee), every period total is the per-hour figure times
\* totalHours, and when the leftover is not negative the worker, fee and
\* residual totals add up to the client total.
C14_StepByStep ==
  variant = "StepByStep" =>
    \A i \in 1..Len(calculations) :
      LET r == calculations[i]
          rb == r.revenueBreakdown
          st == rb.stepByStepCalculation
          fd == rb.finalDistribution
          leftover == st.step3LeftoverAfterWorker
          fee == st.step4ManagementFee
          residual == st.step5RobertProfit
      IN  /\ r.totalHours > 0 =>
               qIsTimes(quotient(rb.employeePayment, 1), st.step2WorkerRate, r.totalHours)
          /\ qSame(qAdd(leftover, st.step2WorkerRate), st.step1ClientRate)
          /\ IF leftover.num * leftover.den > 0
             THEN qIsTimes(leftover, fee, 10)
             ELSE fee.num = 0
          /\ IF qSub(leftover, fee).num > 0
             THEN qSame(qAdd(residual, fee), leftover)
             ELSE residual.num = 0
          /\ qIsTimes(fd.client.total, st.step1ClientRate, r.totalHours)
          /\ qIsTimes(fd.worker.total, st.step2WorkerRate, r.totalHours)
          /\ qIsTimes(fd.robert.managementFee, fee, r.totalHours)
          /\ qIsTimes(fd.robert.profitShare, residual, r.totalHours)
          /\ leftover.num * leftover.den >= 0 =>
               qSame(qAdd(qAdd(fd.worker.total, fd.robert.managementFee),
                        fd.robert.profitShare),
                   fd.client.total)

\* A profile billed above its worker rate: a positive leftover, fee and
\* residual, and totals that add up to a positive client total.
C14_Witness ==
  /\ variant = "StepByStep"
  /\ Len(calculations) = 1
  /\ LET rb == calculations[1].revenueBreakdown
     IN  /\ rb.stepByStepCalculation.step3LeftoverAfterWorker.num > 0
         /\ rb.stepByStepCalculation.step4ManagementFee.num > 0
         /\ rb.stepByStepCalculation.step5RobertProfit.num > 0
         /\ rb.finalDistribution.client.total.num > 0
         /\ Len(computed.profiles[1].clientRates) > 0

\* C15: totalAmount is the sum of grossAmount over the results (of
\* revenueBreakdown.clientPayment in the builds with client rates),
\* totalHours the sum of totalHours, and averageRate is totalAmount /
\* totalHours, or exactly 0 when totalHours is 0.
C15_ClientPayment ==
  LET gross == sumOf([i \in 1..Len(calculations) |-> calculations[i].grossAmount],
                     1..Len(calculations))
      billed == sumOf([i \in 1..Len(calculations) |->
                         IF variant \in {"StepByStep", "ClientRate"}
                         THEN calculations[i].revenueBreakdown.clientPayment ELSE 0],
                      1..Len(calculations))
      hours == sumOf([i \in 1..Len(calculations) |-> calculations[i].totalHours],
                     1..Len(calculations))
  IN  /\ clientPayment.totalAmount
           = IF variant \in {"StepByStep", "ClientRate"} THEN billed ELSE gross
      /\ clientPayment.totalHours = hours
      /\ IF hours = 0
         THEN clientPayment.averageRate = zero
         ELSE qIsTimes(quotient(clientPayment.totalAmount, 1),
                       clientPayment.averageRate, hours)

\* Profiles without hours were computed: averageRate is 0.
C15_Witness ==
  /\ Len(calculations) = 2
  /\ Len(computed.hoursEntries) > 0
  /\ clientPayment.totalHours = 0
  /\ clientPayment.averageRate = zero

\* The value n / d as a quotient in lowest terms, d # 0.
valueOf(n, d) == IF d < 0 THEN reduced(quotient(0 - n, 0 - d)) ELSE reduced(quotient(n, d))

\* The sum of the final net amounts of all results.
totalNet ==
  sumOf([i \in 1..Len(calculations) |-> calculations[i].netAmount], 1..Len(calculations))

\* The statement of C16 as written: in every build the percentage of row i is
\* netAmount_i / (sum of netAmount) * 100, and 0 when that sum is 0.
C16_ShareOfNet ==
  /\ Len(paymentDistribution) = Len(calculations)
  /\ \A i \in 1..Len(calculations) :
       /\ paymentDistribution[i].amount = calculations[i].netAmount
       /\ paymentDistribution[i].percentage.den > 0
       /\ reduced(paymentDistribution[i].percentage)
            = IF totalNet = 0 THEN zero
              ELSE valueOf(calculations[i].netAmount * 100, totalNet)

\* The total the percentages of a build are taken of.
shareBase ==
  CASE variant = "Transfer" -> totalNet
    [] variant = "SingleRate" ->
         sumOf([i \in 1..Len(calculations) |-> calculations[i].grossAmount],
               1..Len(calculations))
    [] OTHER ->
         sumOf([i \in 1..Len(calculations) |->
                  calculations[i].revenueBreakdown.clientPayment], 1..Len(calculations))

\* C16 (amended): every row i has amount = netAmount_i and percentage =
\* netAmount_i / D * 100, where D is the sum of the final net amounts in the
\* Transfer build, of the gross amounts in the SingleRate build and of the
\* client payments in the StepByStep and ClientRate builds; the percentage is
\* exactly 0 when D is 0 or negative.
C16_Distribution ==
  /\ Len(paymentDistribution) = Len(calculations)
  /\ \A i \in 1..Len(calculations) :
       /\ paymentDistribution[i].profileId = calculations[i].profileId
       /\ paymentDistribution[i].amount = calculations[i].netAmount
       /\ paymentDistribution[i].percentage.den > 0
       /\ reduced(paymentDistribution[i].percentage)
            = IF shareBase <= 0 THEN zero
              ELSE valueOf(calculations[i].netAmount * 100, shareBase)

\* A SingleRate profile with a deduction: its percentage is its net amount
\* over the gross total, not over the net total.
C16_Witness ==
  /\ variant = "SingleRate"
  /\ Len(paymentDistribution) = 2
  /\ calculations[1].totalDeductions > 0
  /\ calculations[2].netAmount > 0
  /\ totalNet > 0
  /\ shareBase > totalNet
  /\ reduced(paymentDistribution[1].percentage)
       = valueOf(calculations[1].netAmount * 100, shareBase)
  /\ reduced(paymentDistribution[1].percentage)
       # valueOf(calculations[1].netAmount * 100, totalNet)

\* The profiles ps are the profiles qs, each deductions array holding the same
\* deductions in some order.
sameProfiles(ps, qs) ==
  /\ Len(ps) = Len(qs)
  /\ \A i \in 1..Len(ps) :
       /\ [ps[i] EXCEPT !.deductions = <<>>] = [qs[i] EXCEPT !.deductions = <<>>]
       /\ Len(ps[i].deductions) = Len(qs[i].deductions)
       /\ {ps[i].deductions[k] : k \in 1..Len(ps[i].deductions)}
            = {qs[i].deductions[k] : k \in 1..Len(qs[i].deductions)}

\* The inputs are those the last calculateTotals read.
sameInputs ==
  /\ computed.profiles # <<>>
  /\ sameProfiles(profiles, computed.profiles)
  /\ hoursEntries = computed.hoursEntries
  /\ appliedDeductions = computed.appliedDeductions

recomputes ==
  /\ changed # {}
  /\ changed' \subseteq {"appliedDeductions"}
  /\ computed' = [profiles |-> profiles, hoursEntries |-> hoursEntries,
                  appliedDeductions |-> appliedDeductions]

\* C18: a recomputation leaves the profiles (with the order of every
\* deductions array) and the time entries as they were before it, and the
\* applied-state map as it was or completed by the defaults the
\* initialisation effect of the same commit sets.
C18_InputsNotMutated ==
  [][recomputes => /\ profiles' = profiles
                   /\ hoursEntries' = hoursEntries
                   /\ appliedDeductions' \in {appliedDeductions,
                                               withDefaults(profiles, appliedDeductions)}]_vars

\* A text that is empty once trimmed.
blank(text) == text \in {"", " "}

\* The draft has an empty name, no rate, or a rate without a label or with
\* rate <= 0.
invalidDraft ==
  \/ blank(profileForm.name)
  \/ profileForm.hourlyRates = <<>>
  \/ \E k \in 1..Len(profileForm.hourlyRates) :
       blank(profileForm.hourlyRates[k].label) \/ ~(profileForm.hourlyRates[k].rate > 0)

\* Every stored profile has a name, at least one rate, and positive rates with
\* a label.
C20_StoredProfilesValid ==
  \A i \in 1..Len(profiles) :
    /\ ~blank(profiles[i].name)
    /\ Len(profiles[i].hourlyRates) >= 1
    /\ \A k \in 1..Len(profiles[i].hourlyRates) :
         /\ profiles[i].hourlyRates[k].rate > 0
         /\ ~blank(profiles[i].hourlyRates[k].label)

\* While the draft is invalid no step changes the profiles or the time
\* entries or closes the form, and a step that alerts changes nothing else.
C20_RejectStep ==
  /\ isProfileModalOpen /\ invalidDraft =>
       /\ profiles' = profiles
       /\ hoursEntries' = hoursEntries
       /\ isProfileModalOpen'
  /\ alerted' # alerted =>
       /\ isProfileModalOpen /\ invalidDraft
       /\ UNCHANGED <<profiles, hoursEntries, profileForm, isProfileModalOpen,
                      editingProfile, generated, changed>>

\* C20: handleSaveProfile rejects a draft with an empty name (after trimming),
\* without hourly rates, or with a rate <= 0 or without a label, leaving the
\* profiles, the time entries and the open form unchanged; every stored
\* profile has a name and at least one rate, all with rate > 0.
C20_Validation == [](C20_StoredProfilesValid) /\ [][C20_RejectStep]_vars

\* The profile the form created is being edited; its draft has a rate of 0,
\* the save was rejected with the alert about the rates, and the stored
\* profile and the time entries are as they were.
C20_Witness ==
  /\ isProfileModalOpen
  /\ alerted = "Alle uurtarieven moeten een naam en een geldig bedrag hebben"
  /\ ~blank(profileForm.name)
  /\ \E k \in 1..Len(profileForm.hourlyRates) : profileForm.hourlyRates[k].rate = 0
  /\ Len(profiles) = 1
  /\ profiles[1].id = "g1"
  /\ editingProfile = profiles[1]

-----------------------------------------------------------------------------
(* Import and persistence. *)

\* C21: import is all-or-nothing: an import that fails (the file does not
\* parse, or its profiles or hoursEntries cannot be processed) leaves the
\* profiles and the time entries as they were.
C21_AllOrNothing ==
  [][\A document \in ImportDocuments(variant) :
       (onload(document) /\ importThrows(document))
         => (profiles' = profiles /\ hoursEntries' = hoursEntries)]_vars

\* C22: after a successful import the profiles and the time entries are
\* those of the document, an omitted or empty field included.
C22_ImportReplaces ==
  [][\A document \in ImportDocuments(variant) :
       (onload(document) /\ ~importThrows(document))
         => /\ profiles' = document.profiles.items
            /\ hoursEntries' = document.hoursEntries.items]_vars

\* C28: toggleDeduction inverts the status calculateTotals reads for the
\* deduction, also when its key is not in the map yet, and leaves every
\* other key as it is (so that two toggles restore the status).
C28_ToggleInverts ==
  [][\A i \in 1..Len(profiles) : \A k \in 1..Len(profiles[i].deductions) :
       LET key == deductionKey(profiles[i].id, profiles[i].deductions[k].id)
       IN  toggleDeduction(profiles[i].id, profiles[i].deductions[k].id)
             => /\ isApplied(variant, appliedDeductions', key)
                     = ~isApplied(variant, appliedDeductions, key)
                /\ DOMAIN appliedDeductions' = DOMAIN appliedDeductions \cup {key}
                /\ \A other \in DOMAIN appliedDeductions \ {key} :
                     appliedDeductions'[other] = appliedDeductions[other]]_vars

-----------------------------------------------------------------------------
(* Payment distribution of the Transfer build. *)

\* The percentages as numerators over one denominator.
percentNums == [i \in 1..Len(paymentDistribution) |-> paymentDistribution[i].percentage.num]
overOneTotal(total) ==
  \A i \in 1..Len(paymentDistribution) : paymentDistribution[i].percentage.den = total

\* The percentages add up to 100.
sumsTo100 ==
  /\ overOneTotal(totalNet)
  /\ sumOf(percentNums, 1..Len(paymentDistribution)) = 100 * totalNet

\* Every percentage lies between 0 and 100.
withinRange ==
  \A i \in 1..Len(paymentDistribution) :
    /\ paymentDistribution[i].percentage.num >= 0
    /\ paymentDistribution[i].percentage.num <= 100 * paymentDistribution[i].percentage.den

-----------------------------------------------------------------------------
(* Independent mode against sequential mode. *)

\* The deductions of p that the last calculateTotals read as applied.
appliedOf(p) ==
  {k \in 1..Len(p.deductions) :
     isApplied(variant, computed.appliedDeductions, deductionKey(p.id, p.deductions[k].id))}

\* The sequential calculator of the Transfer build on the deductions of p, from
\* the gross amount and the hours of result r, with the deductions applied
\* that the build of r read as applied.
sequentialOn(p, r) ==
  LET sorted == sortByPriority(p.deductions)
      deds == [k \in 1..Len(sorted) |->
                 [id |-> sorted[k].id, name |-> sorted[k].name,
                  amount |-> sorted[k].amount, type |-> sorted[k].type,
                  priority |-> sorted[k].priority, recipientProfileId |-> ""]]
      applied == [key \in {deductionKey(p.id, deds[k].id) : k \in 1..Len(deds)} |->
                    isApplied(variant, computed.appliedDeductions, key)]
  IN  processSequential(p.id, deds, applied, r.grossAmount, r.totalHours, Len(deds))

\* The independent result r and the sequential calculator agree.
sameAsSequential(p, r) ==
  LET done == sequentialOn(p, r)
  IN  /\ \A k \in 1..Len(r.deductionBreakdown) :
           r.deductionBreakdown[k].amount = done.deductionBreakdown[k].amount
      /\ r.totalDeductions = r.grossAmount - done.remainingAmount
      /\ r.netAmount = done.remainingAmount

\* C27 as written: for a profile with at most one applied deduction,
\* percentage or fixed, the independent-mode builds compute the deduction
\* amount, totalDeductions and netAmount of sequential mode.
C27_SpecialCase ==
  (variant # "Transfer" /\ resultsMatchProfiles) =>
    \A i \in 1..Len(calculations) :
      Cardinality(appliedOf(computed.profiles[i])) <= 1
        => sameAsSequential(computed.profiles[i], calculations[i])

\* A percentage from which sequential mode first takes its own percentage:
\* a "Profit Share" that is also the "MGMT Fee" it looks for.
sharesOwnFee(d) ==
  d.type = "percentage" /\ includes(d.name, "Profit Share") /\ includes(d.name, "MGMT Fee")

\* C27 (amended): for a profile with at most one applied deduction the
\* independent-mode builds agree with sequential mode if there is none or it
\* is a percentage (other than one named both "Profit Share" and "MGMT Fee");
\* a fixed one is deduction.amount in independent mode and deduction.amount *
\* totalHours in sequential mode.
C27_PercentageCase ==
  (variant # "Transfer" /\ resultsMatchProfiles) =>
    \A i \in 1..Len(calculations) :
      LET p == computed.profiles[i]
          r == calculations[i]
      IN  Cardinality(appliedOf(p)) <= 1 =>
            \A k \in appliedOf(p) \cup {0} :
              CASE k = 0 -> appliedOf(p) = {} => sameAsSequential(p, r)
                [] k # 0 /\ p.deductions[k].type = "fixed" ->
                     /\ r.totalDeductions = p.deductions[k].amount
                     /\ r.netAmount = r.grossAmount - p.deductions[k].amount
                     /\ r.grossAmount - sequentialOn(p, r).remainingAmount
                          = p.deductions[k].amount * r.totalHours
                [] k # 0 /\ sharesOwnFee(p.deductions[k]) -> TRUE
                [] OTHER -> sameAsSequential(p, r)

\* A profile with hours and one applied percentage deduction was computed in
\* independent mode, and sequential mode leaves the same net amount.
C27_Witness ==
  /\ variant = "ClientRate"
  /\ resultsMatchProfiles
  /\ \E i \in 1..Len(calculations) :
       LET p == computed.profiles[i]
       IN  /\ Cardinality(appliedOf(p)) = 1
           /\ \A k \in appliedOf(p) : p.deductions[k].type = "percentage"
           /\ calculations[i].totalDeductions > 0
           /\ calculations[i].netAmount = sequentialOn(p, calculations[i]).remainingAmount

-----------------------------------------------------------------------------
(* Order of the profiles in the Transfer build. *)

\* The orders of n profiles.
Orders(n) == {f \in [1..n -> 1..n] : \A x, y \in 1..n : f[x] = f[y] => x = y}

\* The result for the profile pid among the results.
resultOf(results, pid) ==
  results[CHOOSE i \in 1..Len(results) : results[i].profileId = pid]

\* calculateTotals on the profiles the last call read, in the order f.
reordered(f) ==
  calculationsOf("Transfer", [i \in 1..Len(computed.profiles) |-> computed.profiles[f[i]]],
                 computed.hoursEntries, computed.appliedDeductions)

\* What the applied deductions of the other profiles with recipient pid took
\* in Phase 1.
handedTo(pid) ==
  LET first == phase1Results(computed.profiles, computed.hoursEntries,
                             computed.appliedDeductions)
      rows == {<<j, x>> \in (1..Len(first)) \X (1..MaxDeductions) :
                 /\ x <= Len(first[j].deductionBreakdown)
                 /\ first[j].profileId # pid
                 /\ first[j].deductionBreakdown[x].recipient = pid}
  IN  sumOf([row \in rows |-> first[row[1]].deductionBreakdown[row[2]].amount], rows)

\* C26: the two-phase computation does not depend on the order of the
\* profiles: in every order each profile has the same grossAmount,
\* totalDeductions, receivedFromOthers and netAmount; a profile receives what
\* Phase 1 took from the others for it (also when two profiles pay each
\* other), and what it receives is not subject to its own deductions.
C26_OrderIndependent ==
  (variant = "Transfer" /\ resultsMatchProfiles) =>
    /\ \A f \in Orders(Len(computed.profiles)) :
         \A i \in 1..Len(calculations) :
           LET r == calculations[i]
               q == resultOf(reordered(f), r.profileId)
           IN  /\ q.grossAmount = r.grossAmount
               /\ q.totalDeductions = r.totalDeductions
               /\ q.receivedFromOthers = r.receivedFromOthers
               /\ q.netAmount = r.netAmount
    /\ \A i \in 1..Len(calculations) :
         LET r == calculations[i]
             alone == phase1Result(computed.profiles[i], computed.hoursEntries,
                                   computed.appliedDeductions)
         IN  /\ r.receivedFromOthers = handedTo(r.profileId)
             /\ r.totalDeductions = alone.totalDeductions
             /\ r.deductionBreakdown = alone.deductionBreakdown

\* A cycle was computed: p1 paid p2 and p2 paid p1, each receiving what the
\* other's deduction took.
C26_Witness ==
  /\ variant = "Transfer"
  /\ Len(calculations) = 2
  /\ calculations[1].receivedFromOthers > 0
  /\ calculations[2].receivedFromOthers > 0
  /\ calculations[1].receivedFromOthers # calculations[2].receivedFromOthers
  /\ \E x \in 1..Len(calculations[1].deductionBreakdown) :
       /\ calculations[1].deductionBreakdown[x].recipient = "p2"
       /\ calculations[1].deductionBreakdown[x].amount > 0
  /\ \E x \in 1..Len(calculations[2].deductionBreakdown) :
       /\ calculations[2].deductionBreakdown[x].recipient = "p1"
       /\ calculations[2].deductionBreakdown[x].amount = calculations[1].receivedFromOthers

-----------------------------------------------------------------------------
(* The chain of effects. *)

\* The commit of runEffects would leave every cell, and the set of due
\* effects, as they are.
commitChangesNothing ==
  LET sets == initEffectSets(variant, profiles, appliedDeductions, changed)
      results == calculationsOf(variant, profiles, hoursEntries, appliedDeductions)
  IN  /\ localStorage = saveEffects(variant, localStorage, profiles, hoursEntries,
                                    appliedDeductions, changed)
      /\ calculations = results
      /\ clientPayment = clientPaymentOf(variant, results)
      /\ paymentDistribution = paymentDistributionOf(variant, results)
      /\ profiles = sortedInPlace(profiles)
      /\ appliedDeductions = IF sets THEN withDefaults(profiles, appliedDeductions)
                             ELSE appliedDeductions
      /\ changed = IF sets THEN {"appliedDeductions"} ELSE {}

\* C24: the chain of effects after a change of the inputs ends, and when it
\* has ended the displayed calculations are the engine's result for the
\* profiles, time entries and applied-state map of that state.  For the
\* chain to end, a commit that leaves effects due must change some cell: a
\* state with effects due that the commit maps to itself repeats for ever.
C24_EffectsSettle ==
  /\ changed # {} => ~commitChangesNothing
  /\ changed = {} =>
       calculations = calculationsOf(variant, profiles, hoursEntries, appliedDeductions)

-----------------------------------------------------------------------------
(* Identity of rates and deductions across an edit. *)

\* The rows of the form that a stored rate / deduction became.
sameRate(a, b) == a.label = b.label /\ a.rate = b.rate
sameDeduction(a, b) == a.name = b.name /\ a.amount = b.amount /\ a.type = b.type

\* A step in which the Save button stores the edited profile.
savesEdit ==
  /\ isProfileModalOpen /\ ~isProfileModalOpen'
  /\ editingProfile # NoProfile

\* C29: saving an edited profile keeps the id of every hourly rate and every
\* deduction that is still in the form, also when an earlier row of the list
\* was removed during the edit.
C29_IdsSurvive ==
  [][savesEdit =>
       \A i \in 1..Len(profiles') :
         profiles'[i].id = editingProfile.id =>
           /\ \A k \in 1..Len(profiles'[i].hourlyRates) :
                \A j \in 1..Len(editingProfile.hourlyRates) :
                  sameRate(profiles'[i].hourlyRates[k], editingProfile.hourlyRates[j])
                    => profiles'[i].hourlyRates[k].id = editingProfile.hourlyRates[j].id
           /\ \A k \in 1..Len(profiles'[i].deductions) :
                \A j \in 1..Len(editingProfile.deductions) :
                  sameDeduction(profiles'[i].deductions[k], editingProfile.deductions[j])
                    => profiles'[i].deductions[k].id = editingProfile.deductions[j].id]_vars

-----------------------------------------------------------------------------
(* Persistence and referential integrity. *)

\* C23: once the save effects have run, the profiles and the time entries in
\* localStorage are those in memory, also when the last profile or the last
\* time entry has just been removed.
C23_StoredIsCurrent ==
  changed = {} =>
    /\ localStorage.profiles = profiles
    /\ localStorage.hoursEntries = hoursEntries

\* C25: every stored time entry has hours > 0, the id of an existing profile
\* and the id of one of that profile's current rates.
C25_EntriesResolve ==
  \A j \in 1..Len(hoursEntries) :
    /\ hoursEntries[j].hours > 0
    /\ \E i \in 1..Len(profiles) :
         /\ profiles[i].id = hoursEntries[j].profileId
         /\ \E k \in 1..Len(profiles[i].hourlyRates) :
              profiles[i].hourlyRates[k].id = hoursEntries[j].hourlyRateId

====
